---- MODULE Spec2Model ----
(***************************************************************************)
(* A model of the IntersectionObserver polyfill: the geometry helpers,     *)
(* IntersectionObservation (the per-target threshold state machine),       *)
(* the internal IntersectionObserver and IntersectionObserverController    *)
(* (the scheduler shared by all observers).                                *)
(*                                                                         *)
(* Numbers that the code keeps as doubles and that are not integers here   *)
(* (intersection ratios, thresholds, percent margins) are exact rationals  *)
(* [n, d], reduced, with d = 0 standing for +/-Infinity.                   *)
(***************************************************************************)
EXTENDS Integers, Sequences, FiniteSets, TLC

VARIABLES
    \* ---- host (browser) state ----
    parentNode,         \* DOM: node -> its parent node, or Null
    nodeRect,           \* element -> what getBoundingClientRect() returns
    overflow,           \* element -> computed style "overflow"
    clock,              \* what now() returns
    rafRequests,        \* frames requested through requestAnimFrame, not yet run
    repeatTimer,        \* the debounce timer of _repeatHandler is pending
    hoverTimer,         \* the debounce timer of _onMouseOver is pending
    listeners,          \* the window event listeners that are installed
    mutationsSupported, \* typeof window.MutationObserver === 'function'
    \* ---- IntersectionObserverController ----
    idleTimeout, trackHovers, cycleStartTime, isUpdateScheduled, repeatCycle,
    hoverInitiated, mutationsObserver, isListening, observers,
    \* ---- IntersectionObserver (one per element of Observers) ----
    root,               \* observer -> options.root ("html" when omitted)
    rootMargin,         \* observer -> _rootMargin, the four parsed margins
    thresholds,         \* observer -> thresholds
    publicRootMargin,   \* observer -> rootMargin, the string the public observer shows
    instances,          \* the observers that have been constructed
    options,            \* observer -> the options object its constructor is called with
    lastError,          \* what the last failing call of the public API threw
    \* ---- debounce(callback, 200), one closure per debounced handler ----
    timeoutID,          \* handler -> the closure's timeoutID (NoTimeout for false)
    pendingTimeouts,    \* the timeouts the host holds: identifier, handler, time due
    lastCall,           \* handler -> when it was called last (-1: never)
    burst,              \* handler -> calls of the burst the last call belongs to
    invocations,        \* handler -> runs of the wrapped operation since that burst began
    targets,            \* observer -> _targets, the Map as its entries in insertion order
    quedEntries,        \* observer -> _quedEntries
    \* ---- position of the frame callback (scheduleUpdate(timestamp)) ----
    pc,                 \* "idle" | "tick" (inside _updateObservers) | "callback"
    iterIdx,            \* next index of the for..of over controller._observers
    hasChanges,         \* _updateObservers' local hasChanges
    call,               \* the running callback invocation: its this and arguments
    userOps,            \* the operations the running callback has made so far
    tickObservers,      \* the observers that were connected when the running tick began
    refreshed,          \* observer -> its updateObservations() calls in the running tick
    \* ---- observation of the run (history) ----
    history             \* <<observer, target>> -> "never" observed | "added" and not
                        \* measured yet | "first" measured in the running frame |
                        \* "measured" | "removed"

vars == <<parentNode, nodeRect, overflow, clock, rafRequests, repeatTimer, hoverTimer,
          listeners, mutationsSupported,
          idleTimeout, trackHovers, cycleStartTime, isUpdateScheduled, repeatCycle,
          hoverInitiated, mutationsObserver, isListening, observers,
          root, rootMargin, thresholds, publicRootMargin, instances, options, lastError,
          timeoutID, pendingTimeouts, lastCall, burst, invocations,
          targets, quedEntries,
          pc, iterIdx, hasChanges, call, userOps, tickObservers, refreshed, history>>

hostVars == <<parentNode, nodeRect, overflow, clock, rafRequests, repeatTimer, hoverTimer,
              listeners, mutationsSupported>>
controllerVars == <<idleTimeout, trackHovers, cycleStartTime, isUpdateScheduled,
                    repeatCycle, hoverInitiated, mutationsObserver, isListening, observers>>
debounceVars == <<timeoutID, pendingTimeouts, lastCall, burst, invocations>>
configVars == <<root, rootMargin, thresholds, publicRootMargin, instances, options,
                lastError, debounceVars>>
passVars == <<tickObservers, refreshed>>
tickVars == <<pc, iterIdx, hasChanges, call, passVars>>

Null == "null"

\* The observers and the observed elements of the model.
Observers == {"o1", "o2"}
Targets == {"t1", "t2"}

\* The document: document > html > root > wrap; targets hang below root or wrap.
Elements == {"html", "root", "wrap"} \cup Targets
Nodes == {"document"} \cup Elements

\* Node.nodeType: 1 for elements, 9 for the document.
nodeType(node) == IF node = "document" THEN 9 ELSE 1

\* document.documentElement
documentElement == "html"

\* documentElement.clientWidth / clientHeight
viewport == [clientWidth |-> 4, clientHeight |-> 4]

----------------------------------------------------------------------------
\* Exact numbers

Abs(x) == IF x < 0 THEN -x ELSE x

RECURSIVE GCD(_, _)
GCD(a, b) == IF b = 0 THEN a ELSE GCD(b, a % b)

\* The rational n/d (d >= 0), reduced. d = 0 keeps only the sign of n.
Frac(n, d) ==
    IF d = 0 THEN [n |-> IF n > 0 THEN 1 ELSE IF n < 0 THEN -1 ELSE 0, d |-> 0]
    ELSE LET g == GCD(Abs(n), d) IN [n |-> n \div g, d |-> d \div g]

Zero == Frac(0, 1)
One == Frac(1, 1)

\* a <= b on rationals (b may be +/-Infinity)
FracLE(a, b) == a.n * b.d <= b.n * a.d

\* JavaScript's n / d || 0 on integers n and d >= 0: NaN (0/0) and 0 give 0,
\* a non-zero n over 0 gives +/-Infinity, which is truthy and is kept.
DivOrZero(n, d) == IF n = 0 THEN Zero ELSE Frac(n, d)

----------------------------------------------------------------------------
\* geometry.js

createRectangle(left, top, width, height) ==
    [left |-> left, top |-> top, width |-> width, height |-> height,
     bottom |-> top + height, right |-> left + width]

emptyRect == createRectangle(0, 0, 0, 0)

\* mapToClientRect copies every key of the rectangle to a frozen object.
mapToClientRect(rect) == [key \in DOMAIN rect |-> rect[key]]

getRectangle(target) ==
    IF target = documentElement
    THEN createRectangle(0, 0, viewport.clientWidth, viewport.clientHeight)
    ELSE nodeRect[target]

getArea(rect) == rect.width * rect.height

isEmpty(rect) == rect.height = 0 /\ rect.width = 0

isEqual(first, second) ==
    /\ first.top = second.top
    /\ first.left = second.left
    /\ first.right = second.right
    /\ first.bottom = second.bottom

Max(a, b) == IF a >= b THEN a ELSE b
Min(a, b) == IF a <= b THEN a ELSE b

----------------------------------------------------------------------------
\* The DOM queries the code uses

\* Node.contains: other is node or a descendant of it.
RECURSIVE contains(_, _)
contains(node, other) ==
    IF other = Null THEN FALSE
    ELSE IF other = node THEN TRUE
    ELSE contains(node, parentNode[other])

\* A faulty variant of isDetached: the root's place in the document is not looked at.
isOutsideContainer(container, target) == ~contains(container, target)

isDetached(container, target) ==
    \/ (container # documentElement /\ ~contains(documentElement, container))
    \/ ~contains(container, target)

computeIntersection(rootRect, targetRect) ==
    LET left == Max(targetRect.left, rootRect.left)
        right == Min(targetRect.right, rootRect.right)
        top == Max(targetRect.top, rootRect.top)
        bottom == Min(targetRect.bottom, rootRect.bottom)
    IN createRectangle(left, top, right - left, bottom - top)

\* A faulty variant of getIntersectionFrom: no ancestor clips.
getIntersectionWithRoot(container, parent, containterRect, intersecRect) ==
    computeIntersection(intersecRect, containterRect)

\* The while loop of getIntersection, from `parent` upwards.
RECURSIVE getIntersectionFrom(_, _, _, _)
getIntersectionFrom(container, parent, containterRect, intersecRect) ==
    IF parent = container \/ nodeType(parent) # 1
    THEN computeIntersection(intersecRect, containterRect)
    ELSE IF overflow[parent] # "visible"
    THEN getIntersectionFrom(container, parentNode[parent], containterRect,
                             computeIntersection(intersecRect, getRectangle(parent)))
    ELSE getIntersectionFrom(container, parentNode[parent], containterRect, intersecRect)

getIntersection(container, target, containterRect, targetRect) ==
    getIntersectionFrom(container, parentNode[target], containterRect, targetRect)

----------------------------------------------------------------------------
\* IntersectionObservation

\* A faulty variant of IntersectionObservation: it starts at threshold index 1.
ObservationStartsAbove(target) ==
    [target |-> target, prevTargetRect |-> emptyRect, prevThreshold |-> 1,
     prevRatio |-> Zero]

\* new IntersectionObservation(target, observer)
IntersectionObservation(target) ==
    [target |-> target, prevTargetRect |-> emptyRect, prevThreshold |-> 0,
     prevRatio |-> Zero]

\* new IntersectionObserverEntry(...)
IntersectionObserverEntry(target, targetRect, intersecRect, intersecRatio, rootBounds, time) ==
    [boundingClientRect |-> targetRect,
     intersectionRatio |-> intersecRatio,
     intersectionRect |-> mapToClientRect(intersecRect),
     rootBounds |-> mapToClientRect(rootBounds),
     target |-> target,
     time |-> time]

\* A faulty variant of getIntersectionData: an intersection needs an area.
getOverlapData(container, target, containterRect, targetRect) ==
    LET detached == isDetached(container, target)
        intersecRect == IF ~detached
                        THEN getIntersection(container, target, containterRect, targetRect)
                        ELSE emptyRect
        intersects == ~detached /\ intersecRect.width > 0 /\ intersecRect.height > 0
        intersecRatio == DivOrZero(getArea(intersecRect), getArea(targetRect))
    IN [rect |-> intersecRect, ratio |-> intersecRatio, exists |-> intersects]

getIntersectionData(container, target, containterRect, targetRect) ==
    LET detached == isDetached(container, target)
        intersecRect == IF ~detached
                        THEN getIntersection(container, target, containterRect, targetRect)
                        ELSE emptyRect
        intersects == ~detached /\ intersecRect.width >= 0 /\ intersecRect.height >= 0
        intersecRatio == DivOrZero(getArea(intersecRect), getArea(targetRect))
    IN [rect |-> intersecRect, ratio |-> intersecRatio, exists |-> intersects]

\* The while loop of IntersectionObserver.getThresholdGreaterThan, from `index`.
RECURSIVE thresholdScan(_, _, _)
thresholdScan(list, ratio, index) ==
    IF index < Len(list) /\ FracLE(list[index + 1], ratio)
    THEN thresholdScan(list, ratio, index + 1)
    ELSE index

getThresholdGreaterThan(observer, ratio) == thresholdScan(thresholds[observer], ratio, 0)

\* A faulty variant of computeThreshold: it does not look at intersection.exists.
thresholdOfRatioAlone(observer, intersection, targetRect) ==
    IF ~isEmpty(targetRect)
    THEN getThresholdGreaterThan(observer, intersection.ratio)
    ELSE IF intersection.exists THEN 1 ELSE 0

\* updateIntersection's `threshold`: +intersection.exists, replaced by the
\* thresholds' index when the intersection exists and the target is not empty.
computeThreshold(observer, intersection, targetRect) ==
    IF intersection.exists /\ ~isEmpty(targetRect)
    THEN getThresholdGreaterThan(observer, intersection.ratio)
    ELSE IF intersection.exists THEN 1 ELSE 0

\* A faulty variant of thresholdChanged: only a rising index counts.
thresholdRose(threshold, observation) == threshold > observation.prevThreshold

\* thresholdChanged = threshold !== this.prevThreshold
thresholdChanged(threshold, observation) == threshold # observation.prevThreshold

\* The entry updateIntersection queues: ratio 0 and the empty rectangle when
\* the intersection does not exist.
newEntry(target, targetRect, intersection, rootRect) ==
    IntersectionObserverEntry(
        target, targetRect,
        IF intersection.exists THEN intersection.rect ELSE emptyRect,
        IF intersection.exists THEN intersection.ratio ELSE Zero,
        rootRect, clock)

\* A faulty variant of updateIntersection: the cached properties are updated
\* only when an entry is queued.
updateIntersectionOnEntry(observer, observation, rootNode, rootRect) ==
    LET targetRect == getRectangle(observation.target)
        intersection == getIntersectionData(rootNode, observation.target, rootRect, targetRect)
        threshold == computeThreshold(observer, intersection, targetRect)
        changed == thresholdChanged(threshold, observation)
    IN [observation |-> IF changed
                        THEN [target |-> observation.target,
                              prevTargetRect |-> targetRect,
                              prevThreshold |-> threshold,
                              prevRatio |-> intersection.ratio]
                        ELSE observation,
        entries |-> IF changed
                    THEN <<newEntry(observation.target, targetRect, intersection, rootRect)>>
                    ELSE <<>>,
        changes |-> [ratioChanged |-> intersection.ratio # observation.prevRatio,
                     thresholdChanged |-> changed,
                     targetRectChanged |-> ~isEqual(targetRect, observation.prevTargetRect)]]

\* observation.updateIntersection(root, rootRect): the updated observation, the
\* entries it queues on its observer (none or one) and the changes it returns.
updateIntersection(observer, observation, rootNode, rootRect) ==
    LET targetRect == getRectangle(observation.target)
        intersection == getIntersectionData(rootNode, observation.target, rootRect, targetRect)
        threshold == computeThreshold(observer, intersection, targetRect)
        changed == thresholdChanged(threshold, observation)
    IN [observation |-> [target |-> observation.target,
                         prevTargetRect |-> targetRect,
                         prevThreshold |-> threshold,
                         prevRatio |-> intersection.ratio],
        entries |-> IF changed
                    THEN <<newEntry(observation.target, targetRect, intersection, rootRect)>>
                    ELSE <<>>,
        changes |-> [ratioChanged |-> intersection.ratio # observation.prevRatio,
                     thresholdChanged |-> changed,
                     targetRectChanged |-> ~isEqual(targetRect, observation.prevTargetRect)]]

----------------------------------------------------------------------------
\* IntersectionObserver (the internal class)

\* Map.has / Map.delete on the entries of _targets
\* A faulty variant of has: nothing is ever found.
hasNothing(entries, target) == FALSE

has(entries, target) == \E i \in 1..Len(entries) : entries[i].target = target

\* A faulty variant of delete: the entry stays.
deleteNothing(entries, target) == entries

delete(entries, target) == SelectSeq(entries, LAMBDA e : e.target # target)

\* A faulty variant of marginValue: every percent takes the width.
marginValueOfWidth(margin, index, targetRect) ==
    LET value == IF margin.pixels THEN margin.value
                 ELSE Frac(margin.value.n * targetRect.width, margin.value.d)
    IN value.n \div value.d

\* The pixels of one parsed margin against the rectangle: percents take the
\* height for top/bottom (index 0, 2) and the width for right/left (index 1, 3).
\* (The rectangles of the model have whole coordinates, and its margins
\* resolve to whole pixels.)
marginValue(margin, index, targetRect) ==
    LET side == IF index % 2 = 1 THEN targetRect.width ELSE targetRect.height
        value == IF margin.pixels THEN margin.value
                 ELSE Frac(margin.value.n * side, margin.value.d)
    IN value.n \div value.d

applyMargins(targetRect, margins) ==
    LET m == [i \in 1..4 |-> marginValue(margins[i], i - 1, targetRect)]
        top == targetRect.top - m[1]
        right == targetRect.right + m[2]
        bottom == targetRect.bottom + m[3]
        left == targetRect.left - m[4]
    IN [top |-> top, right |-> right, bottom |-> bottom, left |-> left,
        width |-> right - left, height |-> bottom - top]

getRootRect(observer) == applyMargins(getRectangle(root[observer]), rootMargin[observer])

\* A faulty variant of queueEntry: the new entries go to the front.
queueEntryInFront(queue, entries) == entries \o queue

\* queueEntry, for the entries of one observation
queueEntry(queue, entries) == queue \o entries

\* The forEach of updateObservations over the first n entries of _targets:
\* the entries queued so far, in the order the observations were visited.
RECURSIVE queuedBy(_, _, _)
queuedBy(results, queue, n) ==
    IF n = 0 THEN queue
    ELSE queueEntry(queuedBy(results, queue, n - 1), results[n].entries)

\* observer.updateObservations(): the new _targets, the new _quedEntries and
\* the returned hasChanges.
updateObservations(observer) ==
    LET rootRect == getRootRect(observer)
        old == targets[observer]
        results == [i \in 1..Len(old) |->
                        updateIntersection(observer, old[i], root[observer], rootRect)]
    IN [targets |-> [i \in 1..Len(old) |-> results[i].observation],
        quedEntries |-> queuedBy(results, quedEntries[observer], Len(old)),
        hasChanges |-> \E i \in 1..Len(old) :
                          \/ results[i].changes.ratioChanged
                          \/ results[i].changes.targetRectChanged]

\* A faulty variant of splice: the entries are returned and stay in the queue.
slice(queue) == [removed |-> queue, array |-> queue]

\* _quedEntries.splice(0) of takeRecords(): the entries it returns and the
\* queue it leaves.
splice(queue) == [removed |-> queue, array |-> <<>>]

\* A faulty variant of hasEntries: always true.
hasEntriesAlways(queue) == TRUE

hasEntries(queue) == Len(queue) > 0

\* _publicObserver: the public IntersectionObserver that wraps the internal one.
publicObserver(observer) == <<"public", observer>>

\* What notifySubscriber passes to _callback.call(publicObserver, entries, publicObserver)
callbackCall(observer, entries) ==
    [this |-> publicObserver(observer),
     arguments |-> <<entries, publicObserver(observer)>>]

NoCall == [this |-> <<>>, arguments |-> <<>>]

----------------------------------------------------------------------------
\* IntersectionObserverController. Its methods are operators on the record c of
\* the controller's fields together with the host facilities they drive (the
\* requested frames, the two debounce timers, the window listeners).

Controller ==
    [idleTimeout |-> idleTimeout, trackHovers |-> trackHovers,
     cycleStartTime |-> cycleStartTime, isUpdateScheduled |-> isUpdateScheduled,
     repeatCycle |-> repeatCycle, hoverInitiated |-> hoverInitiated,
     mutationsObserver |-> mutationsObserver, isListening |-> isListening,
     observers |-> observers,
     rafRequests |-> rafRequests, repeatTimer |-> repeatTimer,
     hoverTimer |-> hoverTimer, listeners |-> listeners]

\* The next state's controller is c.
ControllerBecomes(c) ==
    /\ idleTimeout' = c.idleTimeout
    /\ trackHovers' = c.trackHovers
    /\ cycleStartTime' = c.cycleStartTime
    /\ isUpdateScheduled' = c.isUpdateScheduled
    /\ repeatCycle' = c.repeatCycle
    /\ hoverInitiated' = c.hoverInitiated
    /\ mutationsObserver' = c.mutationsObserver
    /\ isListening' = c.isListening
    /\ observers' = c.observers
    /\ rafRequests' = c.rafRequests
    /\ repeatTimer' = c.repeatTimer
    /\ hoverTimer' = c.hoverTimer
    /\ listeners' = c.listeners

\* Array.indexOf(observer) !== -1
isConnected(c, observer) == \E i \in 1..Len(c.observers) : c.observers[i] = observer

\* A faulty variant of scheduleUpdate: every call requests a frame.
scheduleUpdateEveryCall(c) == [c EXCEPT !.rafRequests = @ + 1, !.isUpdateScheduled = TRUE]

\* scheduleUpdate() called without a timestamp: request a frame unless one is
\* requested already.
scheduleUpdate(c) ==
    IF ~c.isUpdateScheduled
    THEN [c EXCEPT !.rafRequests = @ + 1, !.isUpdateScheduled = TRUE]
    ELSE c

startUpdateCycle(c) == scheduleUpdate([c EXCEPT !.cycleStartTime = clock])

\* A faulty variant of _hasIdleTimeEnded: the idle time ends when it is reached.
_hasIdleTimeReached(c) == clock - c.cycleStartTime >= c.idleTimeout

_hasIdleTimeEnded(c) == clock - c.cycleStartTime > c.idleTimeout

_wasCycleStarted(c) == c.cycleStartTime # -1

\* The two debounced handlers of the controller.
Debounced == {"_onMouseOver", "_repeatHandler"}

\* The delay both are debounced with, in milliseconds.
DebounceDelay == 200

\* let timeoutID = false: no timeout is pending (setTimeout returns positive
\* identifiers).
NoTimeout == 0

\* Bound of the timeouts that are pending at a time.
MaxTimeouts == 3

\* setTimeout(..., delay) returns an identifier that is not in use.
timeoutIdentifier(table) ==
    CHOOSE id \in 1..(Cardinality(table) + 1) :
        /\ \A t \in table : t.id # id
        /\ \A smaller \in 1..(id - 1) : \E t \in table : t.id = smaller

setTimeout(table, handler, delay) ==
    table \cup {[id |-> timeoutIdentifier(table), handler |-> handler, due |-> clock + delay]}

clearTimeout(table, id) == { t \in table : t.id # id }

\* A faulty variant of debounced: the pending timeout is not cleared.
debouncedKeepsPending(d, handler) ==
    [timeoutID |-> [d.timeoutID EXCEPT ![handler] = timeoutIdentifier(d.pendingTimeouts)],
     pendingTimeouts |-> setTimeout(d.pendingTimeouts, handler, DebounceDelay)]

\* The function debounce(callback, 200) returns, called: it clears the
\* timeout that is pending and sets a new one. d is the closure's timeoutID
\* with the host's table of timeouts.
debounced(d, handler) ==
    LET cleared == IF d.timeoutID[handler] # NoTimeout
                   THEN clearTimeout(d.pendingTimeouts, d.timeoutID[handler])
                   ELSE d.pendingTimeouts
    IN [timeoutID |-> [d.timeoutID EXCEPT ![handler] = timeoutIdentifier(cleared)],
        pendingTimeouts |-> setTimeout(cleared, handler, DebounceDelay)]

\* The callback of the timeout t, up to callback.apply(this, args).
timeoutCallback(d, t) ==
    [timeoutID |-> [d.timeoutID EXCEPT ![t.handler] = NoTimeout],
     pendingTimeouts |-> d.pendingTimeouts \ {t}]

\* debounce(callback, 200): a call clears the pending timer and sets a new one.
_repeatHandler(c) == [c EXCEPT !.repeatTimer = TRUE]
_onMouseOver(c) == [c EXCEPT !.hoverTimer = TRUE]

\* A faulty variant of _onCycleEnded: the cycle is left as it is, neither
\* ended nor repeated.
_onCycleLeftRunning(c) == c

\* A faulty variant of _onCycleEnded: the cycle goes on with one more frame.
_onCycleGoesOn(c) == scheduleUpdate(c)

\* A faulty variant of _onCycleEnded: the cycle is never repeated.
_onCycleEndsForGood(c) == [c EXCEPT !.cycleStartTime = -1]

_onCycleEnded(c) ==
    IF c.repeatCycle
    THEN _repeatHandler([c EXCEPT !.cycleStartTime = 0])
    ELSE [c EXCEPT !.cycleStartTime = -1]

_addHoverListener(c) ==
    IF c.hoverInitiated THEN c
    ELSE [c EXCEPT !.listeners = @ \cup {"mouseover"}, !.hoverInitiated = TRUE]

_removeHoverListener(c) ==
    IF ~c.hoverInitiated THEN c
    ELSE [c EXCEPT !.listeners = @ \ {"mouseover"}, !.hoverInitiated = FALSE]

_initListeners(c) ==
    IF c.isListening THEN c
    ELSE LET c1 == [c EXCEPT !.isListening = TRUE,
                             !.listeners = @ \cup {"resize", "scroll"}]
             c2 == IF c1.trackHovers THEN _addHoverListener(c1) ELSE c1
         IN IF ~mutationsSupported
            THEN startUpdateCycle([c2 EXCEPT !.repeatCycle = TRUE,
                                             !.listeners = @ \cup {"click"}])
            ELSE [c2 EXCEPT !.mutationsObserver = TRUE]

\* A faulty variant of _removeListeners: nothing is removed.
_removeNoListeners(c) == c

_removeListeners(c) ==
    IF ~c.isListening THEN c
    ELSE LET c1 == _removeHoverListener([c EXCEPT !.listeners = @ \ {"resize", "scroll"}])
             c2 == IF ~mutationsSupported
                   THEN [c1 EXCEPT !.repeatCycle = FALSE, !.listeners = @ \ {"click"}]
                   ELSE IF c1.mutationsObserver
                   THEN [c1 EXCEPT !.mutationsObserver = FALSE]
                   ELSE c1
         IN [c2 EXCEPT !.isListening = FALSE]

\* A faulty variant of connect: the observer is not pushed.
connectListenersOnly(c, observer) == IF ~c.isListening THEN _initListeners(c) ELSE c

connect(c, observer) ==
    LET c1 == IF ~isConnected(c, observer)
              THEN [c EXCEPT !.observers = Append(@, observer)]
              ELSE c
    IN IF ~c1.isListening THEN _initListeners(c1) ELSE c1

\* A faulty variant of disconnect: the observer is not spliced out.
disconnectListenersOnly(c, observer) ==
    IF Len(c.observers) = 0 /\ c.isListening THEN _removeListeners(c) ELSE c

\* Array.splice(index, 1) at the first index of observer
disconnect(c, observer) ==
    LET c1 == IF isConnected(c, observer)
              THEN LET index == CHOOSE i \in 1..Len(c.observers) :
                                    /\ c.observers[i] = observer
                                    /\ \A j \in 1..(i - 1) : c.observers[j] # observer
                   IN [c EXCEPT !.observers =
                            SubSeq(@, 1, index - 1) \o SubSeq(@, index + 1, Len(@))]
              ELSE c
    IN IF Len(c1.observers) = 0 /\ c1.isListening THEN _removeListeners(c1) ELSE c1

\* A faulty variant of enableHover: the listener waits for the next connect.
enableHoverOnConnect(c) == [c EXCEPT !.trackHovers = TRUE]

enableHover(c) ==
    LET c1 == [c EXCEPT !.trackHovers = TRUE]
    IN IF c1.isListening THEN _addHoverListener(c1) ELSE c1

disableHover(c) == _removeHoverListener([c EXCEPT !.trackHovers = FALSE])

\* A faulty variant of _onMutation: every mutation starts a cycle.
_onMutationStartsCycle(c, entries) == startUpdateCycle(c)

\* _onMutation(entries): entries is the sequence of the records' types.
_onMutation(c, entries) ==
    LET runSingleUpdate == \A i \in 1..Len(entries) : entries[i] # "attributes"
    IN IF runSingleUpdate THEN scheduleUpdate(c) ELSE startUpdateCycle(c)

----------------------------------------------------------------------------
\* The environment of the model

\* Bound of the clock (now() is capped there).
MaxClock == 1

\* Bound of the operations one notification callback makes.
MaxCallbackOps == 1

\* The idle timeouts the controller is run with (the code's default is 50).
IdleTimeouts == {0}

\* Rectangles a target can take. The viewport is (0, 0)-(4, 4) and the
\* "root" element (0, 0)-(4, 2); "wrap" is (0, 0)-(2, 4).
RootRect == createRectangle(0, 0, 4, 2)
WrapRect == createRectangle(0, 0, 2, 4)
TargetRects ==
    { createRectangle(0, 0, 2, 2),      \* inside root and wrap
      createRectangle(1, 0, 2, 2),      \* inside root, half inside wrap
      createRectangle(-1, 0, 2, 2),     \* half inside
      createRectangle(-2, 0, 2, 2),     \* touches the left edge
      createRectangle(-3, 0, 2, 2),     \* outside, left
      createRectangle(-3, -3, 2, 2),    \* outside, left and above
      createRectangle(1, 1, 0, 0),      \* empty, inside
      createRectangle(-3, -3, 0, 0),    \* empty, outside
      createRectangle(1, 0, 0, 2),      \* zero width, inside
      createRectangle(-1, -3, 0, 2) }   \* zero width, outside left and above

\* Parsed margins: "0px" and "0px 50% 0px 1px"
px(value) == [value |-> Frac(value, 1), pixels |-> TRUE]
percent(value) == [value |-> Frac(value, 100), pixels |-> FALSE]
MarginChoices ==
    { <<px(0), px(0), px(0), px(0)>>,
      <<px(0), percent(50), px(0), px(1)>> }

\* Threshold lists: [0], [0.5], [0, 0.5, 1]
ThresholdChoices == { <<Zero>>, <<Frac(1, 2)>>, <<Zero, Frac(1, 2), One>> }

\* No call of the public API has thrown.
NoError == "none"

\* The `threshold` option and its parsing. For the sort, a string is the
\* sequence of its UTF-16 code units: "-" is 45, "." is 46, "0" is 48 and
\* "e" is 101.

RECURSIVE Pow10(_)
Pow10(k) == IF k = 0 THEN 1 ELSE 10 * Pow10(k - 1)

\* The decimal digits of the natural number m, the most significant first.
RECURSIVE digitsOf(_)
digitsOf(m) == IF m < 10 THEN <<48 + m>> ELSE Append(digitsOf(m \div 10), 48 + (m % 10))

\* The number of decimal places of x, a terminating decimal, from k on.
RECURSIVE decimalsOf(_, _)
decimalsOf(x, k) == IF (x.n * Pow10(k)) % x.d = 0 THEN k ELSE decimalsOf(x, k + 1)

zeros(count) == [i \in 1..count |-> 48]

\* JavaScript's Number::toString for a terminating decimal x in [0, 1]: with
\* the digits s and x = 0.s * 10^n, the decimal form "0.00s" when n > -6 and
\* the exponent form "d.ddde-N" below that (1e-7 is "1e-7").
NumberToString(x) ==
    LET k == decimalsOf(x, 0)
        s == digitsOf((x.n * Pow10(k)) \div x.d)
        n == Len(s) - k
    IN IF k = 0 THEN s
       ELSE IF n > -6 THEN <<48, 46>> \o zeros(-n) \o s
       ELSE <<s[1]>> \o (IF Len(s) > 1 THEN <<46>> \o Tail(s) ELSE <<>>)
                    \o <<101, 45>> \o digitsOf(1 - n)

\* a < b on strings, by code units.
RECURSIVE StringLess(_, _)
StringLess(a, b) ==
    IF b = <<>> THEN FALSE
    ELSE IF a = <<>> THEN TRUE
    ELSE IF a[1] # b[1] THEN a[1] < b[1]
    ELSE StringLess(Tail(a), Tail(b))

\* Array.prototype.sort without a compare function: the elements are ordered
\* by their string forms.
RECURSIVE insertByString(_, _)
insertByString(list, x) ==
    IF list = <<>> THEN <<x>>
    ELSE IF StringLess(NumberToString(x), NumberToString(list[1])) THEN <<x>> \o list
    ELSE <<list[1]>> \o insertByString(Tail(list), x)

RECURSIVE sort(_)
sort(list) ==
    IF list = <<>> THEN <<>>
    ELSE insertByString(sort(SubSeq(list, 1, Len(list) - 1)), list[Len(list)])

\* The strings of the options are the sequences of their characters.
DecimalDigits == <<"0", "1", "2", "3", "4", "5", "6", "7", "8", "9">>
isDigit(ch) == \E i \in 1..Len(DecimalDigits) : DecimalDigits[i] = ch
digitValue(ch) == (CHOOSE i \in 1..Len(DecimalDigits) : DecimalDigits[i] = ch) - 1

\* The natural number that a string of digits writes ("" gives 0).
RECURSIVE digitsValue(_)
digitsValue(text) ==
    IF text = <<>> THEN 0
    ELSE 10 * digitsValue(SubSeq(text, 1, Len(text) - 1)) + digitValue(text[Len(text)])

\* text is digits with at most one "." among them.
isDecimal(text) ==
    /\ \A i \in 1..Len(text) : isDigit(text[i]) \/ text[i] = "."
    /\ Cardinality({ i \in 1..Len(text) : text[i] = "." }) <= 1

\* The value of a decimal with an optional sign in front.
decimalValue(text) ==
    LET negative == Len(text) > 0 /\ text[1] = "-"
        signed == Len(text) > 0 /\ text[1] \in {"-", "+"}
        body == IF signed THEN Tail(text) ELSE text
        dot == IF \E i \in 1..Len(body) : body[i] = "."
               THEN CHOOSE i \in 1..Len(body) : body[i] = "."
               ELSE Len(body) + 1
        whole == digitsValue(SubSeq(body, 1, dot - 1))
        fraction == SubSeq(body, dot + 1, Len(body))
        scale == Pow10(Len(fraction))
        n == whole * scale + digitsValue(fraction)
    IN Frac(IF negative THEN -n ELSE n, scale)

\* JavaScript values: numbers (NaN and the infinities among them), booleans,
\* null, undefined, strings and objects.
NaN == [n |-> 0, d |-> 0]
jsNumber(x) == [type |-> "number", num |-> x, text |-> <<>>]
jsBoolean(b) == [type |-> "boolean", num |-> IF b THEN One ELSE Zero, text |-> <<>>]
jsNull == [type |-> "null", num |-> Zero, text |-> <<>>]
jsUndefined == [type |-> "undefined", num |-> Zero, text |-> <<>>]
jsString(text) == [type |-> "string", num |-> Zero, text |-> text]
jsObject == [type |-> "object", num |-> Zero, text |-> <<>>]

\* Number(value): true is 1, false and null and "" are 0, a string that
\* writes a decimal is its value, undefined and {} and any other string of
\* the model are NaN.
Number(value) ==
    IF value.type \in {"number", "boolean"} THEN value.num
    ELSE IF value.type = "null" THEN Zero
    ELSE IF value.type = "string"
    THEN LET text == value.text
             body == IF Len(text) > 0 /\ text[1] \in {"-", "+"} THEN Tail(text) ELSE text
         IN IF text = <<>> THEN Zero
            ELSE IF isDecimal(body) /\ \E i \in 1..Len(body) : isDigit(body[i])
            THEN decimalValue(text)
            ELSE NaN
    ELSE NaN

\* window.isFinite
isFinite(x) == x.d # 0

\* The `threshold` option: a value that is not an array, or an array of values.
single(value) == [isArray |-> FALSE, items |-> <<value>>]
number(x) == single(jsNumber(x))
array(list) == [isArray |-> TRUE, items |-> list]

\* parseThresholds up to the map: undefined takes the default 0, a value
\* that is not an array makes a list of one, and an empty array gives [0].
thresholdList(option) ==
    IF ~option.isArray
    THEN IF option.items[1] = jsUndefined THEN <<jsNumber(Zero)>> ELSE option.items
    ELSE IF Len(option.items) = 0 THEN <<jsNumber(Zero)>>
    ELSE option.items

\* A faulty variant of validThreshold: the range is not checked.
finiteThreshold(x) == isFinite(x)

\* The map callback of parseThresholds does not throw for this threshold.
validThreshold(x) == isFinite(x) /\ FracLE(Zero, x) /\ FracLE(x, One)

\* What parseThresholds throws: the map callback throws at the first element
\* that is not finite (TypeError) or not in [0, 1] (RangeError).
thresholdError(option) ==
    LET result == thresholdList(option)
        mapped == [i \in 1..Len(result) |-> Number(result[i])]
        thrown == { i \in 1..Len(result) : ~validThreshold(mapped[i]) }
    IN IF thrown = {} THEN NoError
       ELSE LET first == CHOOSE i \in thrown : \A j \in thrown : i <= j
            IN IF ~isFinite(mapped[first])
               THEN "TypeError: The provided double value is non-finite."
               ELSE "RangeError: Threshold values must be between 0 and 1."

\* parseThresholds, when it does not throw: the elements are mapped to
\* numbers and the new list is sorted by Array.prototype.sort.
parseThresholds(option) ==
    LET result == thresholdList(option)
    IN sort([i \in 1..Len(result) |-> Number(result[i])])

\* Threshold options: omitted, 0, [], [0.5], [1, 0.5, 0], [0.25, 1],
\* [1e-7, 1], true, false, null, '', '0.5', ['1', 0.5], and the invalid
\* 1.5, [0.5, -0.5], NaN, [Infinity], {}, [undefined], 'abc', [2, NaN],
\* [NaN, 2]
ThresholdOptions ==
    { single(jsUndefined), number(Zero), array(<<>>), array(<<jsNumber(Frac(1, 2))>>),
      array(<<jsNumber(One), jsNumber(Frac(1, 2)), jsNumber(Zero)>>),
      array(<<jsNumber(Frac(1, 4)), jsNumber(One)>>),
      array(<<jsNumber(Frac(1, 10000000)), jsNumber(One)>>),
      single(jsBoolean(TRUE)), single(jsBoolean(FALSE)), single(jsNull),
      single(jsString(<<>>)), single(jsString(<<"0", ".", "5">>)),
      array(<<jsString(<<"1">>), jsNumber(Frac(1, 2))>>),
      number(Frac(3, 2)), array(<<jsNumber(Frac(1, 2)), jsNumber(Frac(-1, 2))>>),
      number(NaN), array(<<jsNumber(Frac(1, 0))>>), single(jsObject),
      array(<<jsUndefined>>), single(jsString(<<"a", "b", "c">>)),
      array(<<jsNumber(Frac(2, 1)), jsNumber(NaN)>>),
      array(<<jsNumber(NaN), jsNumber(Frac(2, 1))>>) }

ValidThresholdOptions == { option \in ThresholdOptions : thresholdError(option) = NoError }

\* The `rootMargin` option: omitted, or a string.
noMargin == [present |-> FALSE, text |-> <<>>]
margin(text) == [present |-> TRUE, text |-> text]

\* String.split(/\s+/) from the i-th character on: `current` is the piece
\* that is being read and `out` the pieces before it.
RECURSIVE splitFrom(_, _, _, _)
splitFrom(text, i, current, out) ==
    IF i > Len(text) THEN Append(out, current)
    ELSE IF text[i] = " "
    THEN IF i > 1 /\ text[i - 1] = " "
         THEN splitFrom(text, i + 1, current, out)
         ELSE splitFrom(text, i + 1, <<>>, Append(out, current))
    ELSE splitFrom(text, i + 1, Append(current, text[i]), out)

split(text) == splitFrom(text, 1, <<>>, <<>>)

\* Array.join(' ')
RECURSIVE join(_)
join(list) ==
    IF Len(list) = 0 THEN <<>>
    ELSE IF Len(list) = 1 THEN list[1]
    ELSE list[1] \o <<" ">> \o join(Tail(list))

\* (margins + '').split(/\s+/), '0px' being the default of the parameter
marginTokens(option) ==
    split(IF option.present THEN option.text ELSE <<"0", "p", "x">>)

\* margins[i] || other: a missing token and an empty one are both falsy.
tokenOr(tokens, i, other) ==
    IF i <= Len(tokens) /\ tokens[i] # <<>> THEN tokens[i] ELSE other

\* The four tokens after the assignments margins[0..3] = margins[..] || ...
filledTokens(tokens) ==
    LET m0 == tokenOr(tokens, 1, <<"0", "p", "x">>)
        m1 == tokenOr(tokens, 2, m0)
        m2 == tokenOr(tokens, 3, m0)
        m3 == tokenOr(tokens, 4, m1)
    IN <<m0, m1, m2, m3>>

\* /^(-?\d*\.?\d+)(px|%)$/: the unit of the token, the text in front of it,
\* and whether the token matches.
unitOf(token) ==
    IF Len(token) >= 2 /\ token[Len(token) - 1] = "p" /\ token[Len(token)] = "x" THEN "px"
    ELSE IF Len(token) >= 1 /\ token[Len(token)] = "%" THEN "%"
    ELSE "none"

valueOf(token) == SubSeq(token, 1, Len(token) - (IF unitOf(token) = "px" THEN 2 ELSE 1))

matchesMargin(token) ==
    /\ unitOf(token) # "none"
    /\ LET value == valueOf(token)
           body == IF Len(value) > 0 /\ value[1] = "-" THEN Tail(value) ELSE value
       IN /\ isDecimal(body)
          /\ Len(body) >= 1
          /\ isDigit(body[Len(body)])

\* The map callback of parseMargins on a token that matches: parseFloat of
\* the value, divided by 100 when the unit is not 'px'.
parsedMargin(token) ==
    LET value == decimalValue(valueOf(token))
        pixels == unitOf(token) = "px"
    IN [value |-> IF pixels THEN value ELSE Frac(value.n, value.d * 100),
        pixels |-> pixels]

\* What parseMargins throws: for more than four tokens, else for a token
\* that does not match (parseFloat(undefined) is NaN).
marginError(option) ==
    LET tokens == marginTokens(option)
    IN IF Len(tokens) > 4 THEN "Error: Extra text found at the end of rootMargin."
       ELSE IF \E i \in 1..4 : ~matchesMargin(filledTokens(tokens)[i])
       THEN "Error: rootMargin must be specified in pixels or percent."
       ELSE NoError

\* parseMargins, when it does not throw
parseMargins(option) ==
    LET margins == filledTokens(marginTokens(option))
    IN [rawData |-> join(margins),
        parsedData |-> [i \in 1..4 |-> parsedMargin(margins[i])]]

\* Margin options: omitted, and the strings of one to four tokens, with two
\* spaces between tokens, empty, with a space in front or at the end, of five
\* tokens, and with tokens that are no margins.
MarginOptions ==
    { noMargin,
      margin(<<"0", "p", "x">>),
      margin(<<"5", "p", "x">>),
      margin(<<"1", "p", "x", " ", "2", "p", "x">>),
      margin(<<"1", "p", "x", " ", "2", "p", "x", " ", "3", "p", "x">>),
      margin(<<"0", "p", "x", " ", "5", "0", "%", " ", "0", "p", "x", " ", "1", "p", "x">>),
      margin(<<"1", "p", "x", " ", "2", "p", "x", " ", "3", "p", "x", " ", "4", "p", "x">>),
      margin(<<"-", "1", "p", "x", " ", "5", "0", "%">>),
      margin(<<"5", "0", "%", " ", "0", "p", "x">>),
      margin(<<"1", "p", "x", " ", "2", "p", "x", " ", "3", "p", "x", " ", "5", "e", "m", " ">>),
      margin(<<"1", "p", "x", " ", " ", "2", "p", "x">>),
      margin(<<>>),
      margin(<<" ", "5", "p", "x">>),
      margin(<<"1", "p", "x", " ", "2", "p", "x", " ", "3", "p", "x", " ", "4", "p", "x", " ">>),
      margin(<<"1", "p", "x", " ", "2", "p", "x", " ", "3", "p", "x", " ", "4", "p", "x", " ", "5", "p", "x">>),
      margin(<<"5">>),
      margin(<<"5", "e", "m">>),
      margin(<<"1", ".", "p", "x">>),
      margin(<<"p", "x">>),
      margin(<<"1", "p", "x", " ", "x", " ", "3", "p", "x", " ", "4", "p", "x", " ", "5", "e", "m">>) }

\* The `root` option: omitted, or a node.
noRoot == [present |-> FALSE, node |-> Null]
rootOption(node) == [present |-> TRUE, node |-> node]
RootOptions == { noRoot, rootOption("root"), rootOption("html"), rootOption("document") }

\* A faulty variant of isElement: every node passes.
isNode(value) == value \in Nodes

\* value instanceof Element
isElement(value) == value \in Nodes /\ nodeType(value) = 1

\* The options objects the constructor is called with.
ConstructorOptions == [root : RootOptions, rootMargin : MarginOptions, threshold : ThresholdOptions]

\* What the constructor throws: the root is checked first, then the
\* thresholds are parsed, then the margins.
constructorError(opts) ==
    IF opts.root.present /\ ~isElement(opts.root.node)
    THEN "TypeError: member root is not of type Element."
    ELSE IF thresholdError(opts.threshold) # NoError THEN thresholdError(opts.threshold)
    ELSE marginError(opts.rootMargin)

\* this._root: options.root || document.documentElement
rootOf(opts) == IF opts.root.present THEN opts.root.node ELSE documentElement

\* Options that construct an observer of this root, margins and thresholds.
optionsFor(rootNode, margins, list) ==
    [root |-> CHOOSE r \in RootOptions : rootOf([root |-> r]) = rootNode,
     rootMargin |-> CHOOSE m \in MarginOptions :
                        marginError(m) = NoError /\ parseMargins(m).parsedData = margins,
     threshold |-> CHOOSE t \in ValidThresholdOptions : parseThresholds(t) = list]

RootChoices == {"html", "root"}

MutationRecords == { <<"childList">>, <<"attributes">>, <<"characterData", "attributes">> }

\* User code runs between tasks and inside a notification callback.
UserCodeRuns == pc = "idle" \/ (pc = "callback" /\ Len(userOps) < MaxCallbackOps)

\* One more operation of the running callback.
userOp(name) == userOps' = IF pc = "callback" THEN Append(userOps, name) ELSE userOps

Pairs == Observers \X Targets

registered(observer) == { targets[observer][i].target : i \in 1..Len(targets[observer]) }

----------------------------------------------------------------------------
\* The observers' operations, called by user code

\* observer.observe(target)
observe(observer, target) ==
    /\ UserCodeRuns
    /\ IF has(targets[observer], target)
       THEN /\ userOp("observe again")
            /\ UNCHANGED <<hostVars, controllerVars, configVars, targets, quedEntries,
                           tickVars, history>>
       ELSE /\ targets' = [targets EXCEPT ![observer] =
                                Append(@, IntersectionObservation(target))]
            /\ ControllerBecomes(startUpdateCycle(
                    IF ~isConnected(Controller, observer)
                    THEN connect(Controller, observer)
                    ELSE Controller))
            /\ history' = [history EXCEPT ![<<observer, target>>] = "added"]
            /\ userOp("observe")
            /\ UNCHANGED <<parentNode, nodeRect, overflow, clock, mutationsSupported,
                           configVars, quedEntries, tickVars>>

\* observer.disconnect(), as a step of the state
disconnected(observer) ==
    /\ targets' = [targets EXCEPT ![observer] = <<>>]
    /\ ControllerBecomes(disconnect(Controller, observer))
    /\ history' = [p \in Pairs |->
                      IF p[1] = observer /\ history[p] # "never" THEN "removed"
                      ELSE history[p]]

\* observer.unobserve(target)
unobserve(observer, target) ==
    /\ UserCodeRuns
    /\ userOp("unobserve")
    /\ LET left == IF has(targets[observer], target)
                   THEN delete(targets[observer], target)
                   ELSE targets[observer]
       IN IF Len(left) = 0
          THEN disconnected(observer)
          ELSE /\ targets' = [targets EXCEPT ![observer] = left]
               /\ history' = [history EXCEPT ![<<observer, target>>] =
                                    IF @ = "never" THEN @ ELSE "removed"]
               /\ UNCHANGED <<controllerVars, rafRequests, repeatTimer, hoverTimer,
                              listeners>>
    /\ UNCHANGED <<parentNode, nodeRect, overflow, clock, mutationsSupported,
                   configVars, quedEntries, tickVars>>

\* observer.disconnect()
disconnectObserver(observer) ==
    /\ UserCodeRuns
    /\ userOp("disconnect")
    /\ disconnected(observer)
    /\ UNCHANGED <<parentNode, nodeRect, overflow, clock, mutationsSupported,
                   configVars, quedEntries, tickVars>>

\* observer.takeRecords()
takeRecords(observer) ==
    /\ UserCodeRuns
    /\ userOp("takeRecords")
    /\ quedEntries' = [quedEntries EXCEPT ![observer] = splice(@).array]
    /\ UNCHANGED <<hostVars, controllerVars, configVars, targets, tickVars, history>>

\* new IntersectionObserver(callback, options), the callback being a
\* function: the constructor of the public class and the one of
\* _IntersectionObserver, which throws or sets the instance up.
construct(observer) ==
    /\ UserCodeRuns
    /\ observer \notin instances
    /\ userOp("construct")
    /\ LET opts == options[observer]
           error == constructorError(opts)
       IN IF error # NoError
          THEN /\ lastError' = error
               /\ UNCHANGED <<root, rootMargin, thresholds, publicRootMargin, instances>>
          ELSE /\ root' = [root EXCEPT ![observer] = rootOf(opts)]
               /\ rootMargin' = [rootMargin EXCEPT ![observer] =
                                    parseMargins(opts.rootMargin).parsedData]
               /\ publicRootMargin' = [publicRootMargin EXCEPT ![observer] =
                                            parseMargins(opts.rootMargin).rawData]
               /\ thresholds' = [thresholds EXCEPT ![observer] =
                                    parseThresholds(opts.threshold)]
               /\ instances' = instances \cup {observer}
               /\ UNCHANGED lastError
    /\ UNCHANGED <<options, debounceVars, hostVars, controllerVars, targets, quedEntries,
                   tickVars, history>>

\* A call of the public API that throws: the error is all it leaves.
throws(error) ==
    /\ UserCodeRuns
    /\ userOp("throws")
    /\ lastError' = error
    /\ UNCHANGED <<hostVars, controllerVars, root, rootMargin, thresholds,
                   publicRootMargin, instances, options, debounceVars, targets,
                   quedEntries, tickVars, history>>

\* What observe and unobserve throw for their arguments.
targetError(args) ==
    IF Len(args) = 0 THEN "TypeError: 1 argument required, but only 0 present."
    ELSE IF ~isElement(args[1]) THEN "TypeError: parameter 1 is not of type \"Element\"."
    ELSE NoError

\* observer.observe(...args) and observer.unobserve(...args), with any arguments
observeCall(observer, args) ==
    IF targetError(args) # NoError THEN throws(targetError(args))
    ELSE observe(observer, args[1])

unobserveCall(observer, args) ==
    IF targetError(args) # NoError THEN throws(targetError(args))
    ELSE unobserve(observer, args[1])

----------------------------------------------------------------------------
\* The frame callback scheduleUpdate(timestamp), in the steps between which
\* user code (the notification callbacks) runs

\* The requested frame arrives: scheduleUpdate(timestamp) enters _updateObservers.
frameAfter(delay) ==
    /\ pc = "idle"
    /\ rafRequests > 0
    /\ rafRequests' = rafRequests - 1
    /\ clock' = clock + delay
    /\ pc' = "tick"
    /\ iterIdx' = 1
    /\ hasChanges' = FALSE
    /\ tickObservers' = { observers[i] : i \in 1..Len(observers) }
    /\ refreshed' = [o \in Observers |-> 0]
    /\ UNCHANGED <<userOps, parentNode, nodeRect, overflow, repeatTimer, hoverTimer,
                   listeners, mutationsSupported, controllerVars, configVars, targets,
                   quedEntries, call, history>>

\* The frame arrives while the clock stands still (time is timePasses' matter).
frame == frameAfter(0)

\* One turn of the for..of loop of _updateObservers: updateObservations() of the
\* next observer, then notifySubscriber() if it has entries, up to the call of
\* the callback.
updateObserver ==
    /\ pc = "tick"
    /\ iterIdx <= Len(observers)
    /\ LET observer == observers[iterIdx]
           update == updateObservations(observer)
       IN /\ targets' = [targets EXCEPT ![observer] = update.targets]
          /\ hasChanges' = (hasChanges \/ update.hasChanges)
          /\ iterIdx' = iterIdx + 1
          /\ refreshed' = [refreshed EXCEPT ![observer] = @ + 1]
          /\ LET taken == splice(update.quedEntries)
             IN \* notifySubscriber() takes the records and calls back if
                \* there are any
                /\ quedEntries' = [quedEntries EXCEPT ![observer] = taken.array]
                /\ IF hasEntries(taken.removed)
                   THEN /\ call' = callbackCall(observer, taken.removed)
                        /\ pc' = "callback"
                   ELSE UNCHANGED <<call, pc>>
          /\ history' = [p \in Pairs |->
                            IF p[1] = observer /\ history[p] = "added" THEN "first"
                            ELSE history[p]]
    /\ UNCHANGED <<hostVars, controllerVars, configVars, userOps, tickObservers>>

\* The notification callback returns.
callbackReturns ==
    /\ pc = "callback"
    /\ pc' = "tick"
    /\ call' = NoCall
    /\ userOps' = <<>>
    /\ UNCHANGED <<hostVars, controllerVars, configVars, targets, quedEntries, iterIdx,
                   hasChanges, passVars, history>>

\* A faulty variant of afterUpdate: changes ask for one more frame but do
\* not move the start of the cycle.
afterUpdateNoRestart(c, changes) ==
    LET c1 == [c EXCEPT !.isUpdateScheduled = FALSE]
    IN IF ~_wasCycleStarted(c1) THEN c1
       ELSE IF changes \/ ~_hasIdleTimeEnded(c1) THEN scheduleUpdate(c1)
       ELSE _onCycleEnded(c1)

\* A faulty variant of afterUpdate: the tick does not ask whether a cycle
\* was started.
afterUpdateOfAnyTick(c, changes) ==
    LET c1 == [c EXCEPT !.isUpdateScheduled = FALSE]
    IN IF changes THEN startUpdateCycle(c1)
       ELSE IF ~_hasIdleTimeEnded(c1) THEN scheduleUpdate(c1)
       ELSE _onCycleEnded(c1)

\* The rest of scheduleUpdate(timestamp), after _updateObservers returned.
afterUpdate(c, changes) ==
    LET c1 == [c EXCEPT !.isUpdateScheduled = FALSE]
    IN IF ~_wasCycleStarted(c1) THEN c1
       ELSE IF changes THEN startUpdateCycle(c1)
       ELSE IF ~_hasIdleTimeEnded(c1) THEN scheduleUpdate(c1)
       ELSE _onCycleEnded(c1)

frameEnds ==
    /\ pc = "tick"
    /\ iterIdx > Len(observers)
    /\ ControllerBecomes(afterUpdate(Controller, hasChanges))
    /\ pc' = "idle"
    /\ iterIdx' = 0
    /\ hasChanges' = FALSE
    /\ tickObservers' = {}
    /\ refreshed' = [o \in Observers |-> 0]
    /\ history' = [p \in Pairs |-> IF history[p] = "first" THEN "measured" ELSE history[p]]
    /\ UNCHANGED <<userOps, parentNode, nodeRect, overflow, clock, mutationsSupported, configVars,
                   targets, quedEntries, call>>

----------------------------------------------------------------------------
\* Host events and timers

\* An event handler or a timer runs cb on the controller, as a task of its own.
task(c) ==
    /\ pc = "idle"
    /\ ControllerBecomes(c)
    /\ UNCHANGED <<userOps, parentNode, nodeRect, overflow, clock, mutationsSupported, configVars,
                   targets, quedEntries, tickVars, history>>

resize == "resize" \in listeners /\ task(startUpdateCycle(Controller))
scroll == "scroll" \in listeners /\ task(scheduleUpdate(Controller))
click == "click" \in listeners /\ task(startUpdateCycle(Controller))
mouseover == "mouseover" \in listeners /\ task(_onMouseOver(Controller))

mutation(entries) == mutationsObserver /\ task(_onMutation(Controller, entries))

\* The timer of _onMouseOver fires: startUpdateCycle()
hoverTimerFires ==
    /\ hoverTimer
    /\ task(startUpdateCycle([Controller EXCEPT !.hoverTimer = FALSE]))

\* The timer of _repeatHandler fires: scheduleUpdate()
repeatTimerFires ==
    /\ repeatTimer
    /\ task(scheduleUpdate([Controller EXCEPT !.repeatTimer = FALSE]))

\* Time passes.
timePasses ==
    /\ pc \in {"idle", "callback"}
    /\ clock < MaxClock
    /\ clock' = clock + 1
    /\ UNCHANGED <<userOps, parentNode, nodeRect, overflow, rafRequests, repeatTimer, hoverTimer,
                   listeners, mutationsSupported, controllerVars, configVars, targets,
                   quedEntries, tickVars, history>>

\* Layout changes (by user code, a transition or a scroll): a target gets another rectangle.
layout(target, rect) ==
    /\ UserCodeRuns
    /\ userOp("layout")
    /\ nodeRect' = [nodeRect EXCEPT ![target] = rect]
    /\ UNCHANGED <<parentNode, overflow, clock, rafRequests, repeatTimer, hoverTimer,
                   listeners, mutationsSupported, controllerVars, configVars, targets,
                   quedEntries, tickVars, history>>

\* The document changes: a node is removed from / inserted into the tree
reparent(node, parent) ==
    /\ UserCodeRuns
    /\ userOp("reparent")
    /\ parentNode' = [parentNode EXCEPT ![node] = parent]
    /\ UNCHANGED <<nodeRect, overflow, clock, rafRequests, repeatTimer, hoverTimer,
                   listeners, mutationsSupported, controllerVars, configVars, targets,
                   quedEntries, tickVars, history>>

\* The overflow style of the wrapper changes
restyle(node, value) ==
    /\ UserCodeRuns
    /\ userOp("restyle")
    /\ overflow' = [overflow EXCEPT ![node] = value]
    /\ UNCHANGED <<parentNode, nodeRect, clock, rafRequests, repeatTimer, hoverTimer,
                   listeners, mutationsSupported, controllerVars, configVars, targets,
                   quedEntries, tickVars, history>>

----------------------------------------------------------------------------
\* The static accessors of the public IntersectionObserver that drive the controller

setTrackHovers(value) ==
    /\ UserCodeRuns
    /\ userOp("trackHovers")
    /\ ControllerBecomes(IF value THEN enableHover(Controller) ELSE disableHover(Controller))
    /\ UNCHANGED <<parentNode, nodeRect, overflow, clock, mutationsSupported, configVars,
                   targets, quedEntries, tickVars, history>>

\* IntersectionObserver.trackHovers = value, for any value
trackHoversCall(value) ==
    IF value.type # "boolean"
    THEN throws("TypeError: type of \"trackHovers\" value must be a boolean.")
    ELSE setTrackHovers(value.num = One)

\* a < b on JavaScript numbers: false when one of them is NaN.
lessThan(a, b) == a # NaN /\ b # NaN /\ a.n * b.d < b.n * a.d

\* typeof value, for a number
typeofNumber == <<"n", "u", "m", "b", "e", "r">>

\* The second test of the idleTimeout setter, `typeof value < 0`: the name of
\* the type is converted to a number and compared with 0.
negativeTimeout(value) == lessThan(Number(jsString(typeofNumber)), Zero)

\* IntersectionObserver.idleTimeout = value, for any value: the static setter
\* and the setter of the controller. (The numbers of the model are whole.)
idleTimeoutCall(value) ==
    IF value.type # "number"
    THEN throws("TypeError: type of \"idleTimeout\" value must be a number.")
    ELSE IF negativeTimeout(value)
    THEN throws("TypeError: \"idleTimeout\" value must be greater than 0.")
    ELSE /\ UserCodeRuns
         /\ userOp("idleTimeout")
         /\ idleTimeout' = value.num.n
         /\ UNCHANGED <<hostVars, trackHovers, cycleStartTime, isUpdateScheduled,
                        repeatCycle, hoverInitiated, mutationsObserver, isListening,
                        observers, configVars, targets, quedEntries, tickVars, history>>

----------------------------------------------------------------------------
\* Specifications

\* The state after the module is loaded and the controller constructed with
\* its defaults. The idle timeout is the one the user has set (in units of the
\* clock).
LoadedWith(timeouts, rects) ==
    /\ parentNode = [n \in Nodes |->
                        IF n = "document" THEN Null
                        ELSE IF n = "html" THEN "document"
                        ELSE IF n = "root" THEN "html"
                        ELSE IF n = "wrap" THEN "root"
                        ELSE "wrap"]
    /\ nodeRect \in [Elements \ {"html"} -> rects \cup {RootRect, WrapRect}]
    /\ nodeRect["root"] = RootRect
    /\ nodeRect["wrap"] = WrapRect
    /\ \A t \in Targets : nodeRect[t] = createRectangle(-3, 0, 2, 2)
    /\ overflow = [n \in Elements |-> IF n = "wrap" THEN "hidden" ELSE "visible"]
    /\ clock = 0
    /\ rafRequests = 0
    /\ repeatTimer = FALSE
    /\ hoverTimer = FALSE
    /\ listeners = {}
    /\ mutationsSupported \in BOOLEAN
    /\ idleTimeout \in timeouts
    /\ trackHovers = FALSE
    /\ cycleStartTime = -1
    /\ isUpdateScheduled = FALSE
    /\ repeatCycle = FALSE
    /\ hoverInitiated = FALSE
    /\ mutationsObserver = FALSE
    /\ isListening = FALSE
    /\ observers = <<>>
    /\ lastError = NoError
    /\ timeoutID = [handler \in Debounced |-> NoTimeout]
    /\ pendingTimeouts = {}
    /\ lastCall = [handler \in Debounced |-> -1]
    /\ burst = [handler \in Debounced |-> 0]
    /\ invocations = [handler \in Debounced |-> 0]
    /\ targets = [o \in Observers |-> <<>>]
    /\ quedEntries = [o \in Observers |-> <<>>]
    /\ pc = "idle"
    /\ iterIdx = 0
    /\ hasChanges = FALSE
    /\ call = NoCall
    /\ userOps = <<>>
    /\ tickObservers = {}
    /\ refreshed = [o \in Observers |-> 0]
    /\ history = [p \in Pairs |-> "never"]

\* The state after the observers have been constructed as well, with the given
\* options.
InitWith(roots, margins, thresholdLists, timeouts, rects) ==
    /\ LoadedWith(timeouts, rects)
    /\ root \in roots
    /\ rootMargin \in margins
    /\ thresholds \in thresholdLists
    /\ instances = Observers
    /\ options = [o \in Observers |-> optionsFor(root[o], rootMargin[o], thresholds[o])]
    /\ publicRootMargin = [o \in Observers |->
                                parseMargins(options[o].rootMargin).rawData]


\* Two observers on two targets, under every host event. The first target is
\* an element that is not rendered (its rectangle is all zero) or lies outside
\* the roots; the second one lies inside or outside them.
MainRects(target) ==
    IF target = "t1"
    THEN { createRectangle(0, 0, 0, 0), createRectangle(-3, 0, 2, 2) }
    ELSE { createRectangle(0, 0, 2, 2), createRectangle(-3, 0, 2, 2) }

Init ==
    InitWith({[o \in Observers |-> IF o = "o1" THEN "html" ELSE "root"]},
             {[o \in Observers |-> <<px(0), px(0), px(0), px(0)>>]},
             {[o \in Observers |-> IF o = "o1" THEN <<Zero>> ELSE <<Zero, Frac(1, 2), One>>]},
             IdleTimeouts, UNION { MainRects(t) : t \in Targets })

\* The observations of the run: o1 observes both targets, o2 the first.
MainPairs == {<<"o1", "t1">>, <<"o1", "t2">>, <<"o2", "t1">>}

Next ==
    \/ \E p \in MainPairs : observe(p[1], p[2])
    \/ \E p \in MainPairs : unobserve(p[1], p[2])
    \/ \E o \in Observers : disconnectObserver(o)
    \/ \E o \in Observers : takeRecords(o)
    \/ frame
    \/ updateObserver
    \/ callbackReturns
    \/ frameEnds
    \/ resize
    \/ scroll
    \/ click
    \/ \E entries \in MutationRecords : mutation(entries)
    \/ repeatTimerFires
    \/ timePasses
    \/ pc = "idle" /\ \E t \in Targets : \E r \in MainRects(t) : layout(t, r)

Spec == Init /\ [][Next]_vars

\* One observer on one target, with every option and every geometry: the
\* target takes every rectangle, is moved in the document and clipped.
GeoObserver == "o1"
GeoTarget == "t1"

GeoInit ==
    InitWith([Observers -> RootChoices], [Observers -> MarginChoices],
             [Observers -> ThresholdChoices], {0}, TargetRects)
    /\ root["o2"] = "html"
    /\ rootMargin["o2"] = <<px(0), px(0), px(0), px(0)>>
    /\ thresholds["o2"] = <<Zero>>
    /\ mutationsSupported

GeoNext ==
    \/ observe(GeoObserver, GeoTarget)
    \/ unobserve(GeoObserver, GeoTarget)
    \/ frame
    \/ updateObserver
    \/ callbackReturns
    \/ frameEnds
    \/ pc = "idle" /\ \E r \in TargetRects : layout(GeoTarget, r)
    \/ pc = "idle" /\ \E parent \in {"wrap", "root", Null} : reparent(GeoTarget, parent)
    \/ pc = "idle" /\ \E parent \in {"html", Null} : reparent("root", parent)
    \/ pc = "idle" /\ \E value \in {"visible", "hidden"} : restyle("wrap", value)

GeoSpec == GeoInit /\ [][GeoNext]_vars

----------------------------------------------------------------------------
\* One observer on one target under a clock that advances by a fixed interval
\* from frame to frame, for every idle timeout: the cycles of the controller.
\* Targets are added and moved up to MaxChangeTime only; the clock runs on
\* long enough for the last cycle to come to its end.

\* The time from one frame to the next.
TickInterval == 2

MaxIdleTimeout == 4

MaxChangeTime == 4

CycleEnd == MaxChangeTime + MaxIdleTimeout + 2 * TickInterval

CycleRects == { createRectangle(0, 0, 2, 2), createRectangle(1, 0, 2, 2),
                createRectangle(-3, 0, 2, 2) }

CycleInit ==
    InitWith({[o \in Observers |-> "html"]},
             {[o \in Observers |-> <<px(0), px(0), px(0), px(0)>>]},
             {[o \in Observers |-> <<Zero>>]},
             0..MaxIdleTimeout, CycleRects)
    /\ mutationsSupported

timedFrame == clock + TickInterval <= CycleEnd /\ frameAfter(TickInterval)

CycleNext ==
    \/ clock < MaxChangeTime /\ observe(GeoObserver, GeoTarget)
    \/ timedFrame
    \/ updateObserver
    \/ callbackReturns
    \/ frameEnds
    \/ pc = "idle" /\ clock < MaxChangeTime /\ \E r \in CycleRects : layout(GeoTarget, r)

CycleSpec == CycleInit /\ [][CycleNext]_vars

\* A turn of the loop of _updateObservers is taken: the steps of updateObserver,
\* which is enabled whenever the loop has an observer left.
loopTurn == pc = "tick" /\ iterIdx <= Len(observers) /\ iterIdx' = iterIdx + 1

\* The same, with every requested frame arriving and every step of it taken.
CycleLive ==
    /\ CycleSpec
    /\ WF_vars(timedFrame)
    /\ WF_iterIdx(loopTurn)
    /\ WF_vars(callbackReturns)
    /\ WF_vars(frameEnds)

----------------------------------------------------------------------------
\* The fallback mode: no mutation notifications and no host event at all; two
\* observers of one target, moved at will. Every requested frame arrives,
\* every step of it is taken and a timer that is set fires.

FallbackInit == Init /\ ~mutationsSupported

FallbackNext ==
    \/ \E o \in Observers : observe(o, GeoTarget)
    \/ \E o \in Observers : unobserve(o, GeoTarget)
    \/ frame
    \/ updateObserver
    \/ callbackReturns
    \/ frameEnds
    \/ repeatTimerFires
    \/ timePasses
    \/ pc = "idle" /\ \E r \in MainRects(GeoTarget) : layout(GeoTarget, r)

FallbackSpec == FallbackInit /\ [][FallbackNext]_vars

FallbackLive ==
    /\ FallbackSpec
    /\ WF_vars(frame)
    /\ WF_iterIdx(loopTurn)
    /\ WF_vars(callbackReturns)
    /\ WF_vars(frameEnds)
    /\ WF_vars(repeatTimerFires)

----------------------------------------------------------------------------
\* The fallback mode under a clock: one observer and one target, every idle
\* timeout, frames TickInterval apart; the target is moved and the idle
\* timeout is set at any time, so a recheck finds a change or none.

RecheckInit ==
    InitWith({[o \in Observers |-> "html"]},
             {[o \in Observers |-> <<px(0), px(0), px(0), px(0)>>]},
             {[o \in Observers |-> <<Zero>>]},
             0..MaxIdleTimeout, CycleRects)
    /\ ~mutationsSupported

RecheckNext ==
    \/ clock < MaxChangeTime /\ observe(GeoObserver, GeoTarget)
    \/ timedFrame
    \/ updateObserver
    \/ callbackReturns
    \/ frameEnds
    \/ repeatTimerFires
    \/ pc = "idle" /\ \E r \in CycleRects : layout(GeoTarget, r)
    \/ pc = "idle" /\ \E value \in 0..CycleEnd :
                        idleTimeoutCall(jsNumber(Frac(value, 1)))

RecheckSpec == RecheckInit /\ [][RecheckNext]_vars

----------------------------------------------------------------------------
\* One observer, constructed with every threshold option, on one target that
\* is moved: the threshold lists as the constructor stores them.

ThresholdInit ==
    /\ InitWith({[o \in Observers |-> "html"]},
                {[o \in Observers |-> <<px(0), px(0), px(0), px(0)>>]},
                [Observers -> { parseThresholds(option) : option \in ValidThresholdOptions }],
                {0}, CycleRects)
    /\ thresholds["o2"] = <<Zero>>
    /\ mutationsSupported

ThresholdNext ==
    \/ observe(GeoObserver, GeoTarget)
    \/ unobserve(GeoObserver, GeoTarget)
    \/ frame
    \/ updateObserver
    \/ callbackReturns
    \/ frameEnds
    \/ pc = "idle" /\ \E r \in CycleRects : layout(GeoTarget, r)

ThresholdSpec == ThresholdInit /\ [][ThresholdNext]_vars

----------------------------------------------------------------------------
\* The construction of the observers: the first one is constructed with every
\* options object, the second one without options; the first one then
\* observes a target that is moved.

DefaultOptions == [root |-> noRoot, rootMargin |-> noMargin, threshold |-> single(jsUndefined)]

ConstructInit ==
    /\ LoadedWith({0}, CycleRects)
    /\ mutationsSupported
    /\ instances = {}
    /\ options \in { [o \in Observers |-> IF o = GeoObserver THEN opts ELSE DefaultOptions] :
                        opts \in ConstructorOptions }
    /\ root = [o \in Observers |-> Null]
    /\ rootMargin = [o \in Observers |-> <<>>]
    /\ thresholds = [o \in Observers |-> <<>>]
    /\ publicRootMargin = [o \in Observers |-> <<>>]

ConstructNext ==
    \/ \E o \in Observers : construct(o)
    \/ GeoObserver \in instances /\ observe(GeoObserver, GeoTarget)
    \/ GeoObserver \in instances /\ unobserve(GeoObserver, GeoTarget)
    \/ frame
    \/ updateObserver
    \/ callbackReturns
    \/ frameEnds
    \/ pc = "idle" /\ \E r \in CycleRects : layout(GeoTarget, r)

ConstructSpec == ConstructInit /\ [][ConstructNext]_vars

----------------------------------------------------------------------------
\* One observer, of either root and of every margin string, on two targets
\* that are moved: the root rectangle of the passes.

MarginInit ==
    /\ InitWith({ [o \in Observers |-> IF o = GeoObserver THEN r ELSE "html"] :
                    r \in RootChoices },
                { [o \in Observers |-> IF o = GeoObserver
                                       THEN parseMargins(m).parsedData
                                       ELSE <<px(0), px(0), px(0), px(0)>>] :
                    m \in { option \in MarginOptions : marginError(option) = NoError } },
                {[o \in Observers |-> <<Zero>>]},
                {0}, {createRectangle(-3, 0, 2, 2)})
    /\ mutationsSupported

MarginRects == { createRectangle(0, 0, 2, 2), createRectangle(-3, 0, 2, 2) }

MarginNext ==
    \/ \E t \in Targets : observe(GeoObserver, t)
    \/ \E t \in Targets : unobserve(GeoObserver, t)
    \/ frame
    \/ updateObserver
    \/ callbackReturns
    \/ frameEnds
    \/ pc = "idle" /\ \E t \in Targets : \E r \in MarginRects : layout(t, r)

MarginSpec == MarginInit /\ [][MarginNext]_vars

----------------------------------------------------------------------------
\* One observer and one target under the calls of the public API with valid
\* and invalid arguments, and with the static accessors.

\* Arguments of observe and unobserve: none, the target, the document (a node
\* that is no element) and null.
TargetArguments == { <<>>, <<GeoTarget>>, <<"document">>, <<Null>> }

\* Values assigned to idleTimeout and to trackHovers.
TimeoutValues ==
    { jsNumber(Frac(-1, 1)), jsNumber(One), jsString(<<"5">>), jsNull, jsUndefined }
HoverValues == { jsBoolean(TRUE), jsBoolean(FALSE), jsNumber(One), jsUndefined }

ApiNext ==
    \/ \E args \in TargetArguments : observeCall(GeoObserver, args)
    \/ \E args \in TargetArguments : unobserveCall(GeoObserver, args)
    \/ disconnectObserver(GeoObserver)
    \/ \E value \in TimeoutValues : idleTimeoutCall(value)
    \/ \E value \in HoverValues : trackHoversCall(value)
    \/ frame
    \/ updateObserver
    \/ callbackReturns
    \/ frameEnds
    \/ mouseover
    \/ hoverTimerFires
    \/ repeatTimerFires
    \/ pc = "idle" /\ \E r \in MainRects("t2") : layout(GeoTarget, r)

ApiSpec == Init /\ [][ApiNext]_vars

----------------------------------------------------------------------------
\* Two observers on one target while the tracking of hovers is switched on
\* and off and the mouse moves.

HoverNext ==
    \/ \E o \in Observers : observe(o, GeoTarget)
    \/ \E o \in Observers : unobserve(o, GeoTarget)
    \/ \E o \in Observers : disconnectObserver(o)
    \/ \E value \in BOOLEAN : setTrackHovers(value)
    \/ frame
    \/ updateObserver
    \/ callbackReturns
    \/ frameEnds
    \/ mouseover
    \/ hoverTimerFires
    \/ pc = "idle" /\ \E r \in MainRects("t2") : layout(GeoTarget, r)

HoverSpec == Init /\ [][HoverNext]_vars

----------------------------------------------------------------------------
\* The debounced handlers under a clock of milliseconds: one observer in the
\* fallback mode with the tracking of hovers on; the handlers are called at
\* any time, and the host runs a timeout when it is due, before anything else
\* that happens at that time.

\* The times at which something is seen to happen are TimeStep apart, or are
\* the times at which a timeout is due.
TimeStep == DebounceDelay \div 4

MaxTime == 2 * DebounceDelay + 2 * TimeStep

\* Bound of the calls counted in one burst.
MaxBurst == 3

Debounce == [timeoutID |-> timeoutID, pendingTimeouts |-> pendingTimeouts]

DebounceBecomes(d) == timeoutID' = d.timeoutID /\ pendingTimeouts' = d.pendingTimeouts

overdue == \E t \in pendingTimeouts : t.due <= clock

\* The listener of "mouseover" calls _onMouseOver, _onCycleEnded() calls
\* _repeatHandler: the call of the debounced function.
callDebounced(handler) ==
    /\ pc = "idle"
    /\ ~overdue
    /\ Cardinality(pendingTimeouts) < MaxTimeouts
    /\ burst[handler] < MaxBurst
    /\ IF handler = "_onMouseOver"
       THEN "mouseover" \in listeners /\ ControllerBecomes(_onMouseOver(Controller))
       ELSE repeatCycle /\ ControllerBecomes(_repeatHandler(Controller))
    /\ DebounceBecomes(debounced(Debounce, handler))
    /\ lastCall' = [lastCall EXCEPT ![handler] = clock]
    /\ LET sameBurst == lastCall[handler] >= 0 /\ clock - lastCall[handler] < DebounceDelay
       IN /\ burst' = [burst EXCEPT ![handler] = IF sameBurst THEN @ + 1 ELSE 1]
          /\ invocations' = [invocations EXCEPT ![handler] = IF sameBurst THEN @ ELSE 0]
    /\ UNCHANGED <<userOps, parentNode, nodeRect, overflow, clock, mutationsSupported,
                   root, rootMargin, thresholds, publicRootMargin, instances, options,
                   lastError, targets, quedEntries, tickVars, history>>

\* A timeout that is due runs: timeoutID = false, then the wrapped operation,
\* startUpdateCycle for _onMouseOver and scheduleUpdate for _repeatHandler.
timeoutRuns ==
    /\ pc = "idle"
    /\ \E t \in pendingTimeouts :
        /\ t.due <= clock
        /\ DebounceBecomes(timeoutCallback(Debounce, t))
        /\ IF t.handler = "_onMouseOver"
           THEN ControllerBecomes(startUpdateCycle([Controller EXCEPT !.hoverTimer = FALSE]))
           ELSE ControllerBecomes(scheduleUpdate([Controller EXCEPT !.repeatTimer = FALSE]))
        /\ invocations' = [invocations EXCEPT ![t.handler] = @ + 1]
    /\ UNCHANGED <<userOps, parentNode, nodeRect, overflow, clock, mutationsSupported,
                   root, rootMargin, thresholds, publicRootMargin, instances, options,
                   lastError, lastCall, burst, targets, quedEntries, tickVars, history>>

\* Time passes, up to the next time something can happen.
timeElapses ==
    /\ pc = "idle"
    /\ ~overdue
    /\ LET next == clock + TimeStep
           due == { t.due : t \in pendingTimeouts }
           first == IF \E time \in due : time < next
                    THEN CHOOSE time \in due : \A other \in due : time <= other
                    ELSE next
       IN first <= MaxTime /\ clock' = first
    /\ UNCHANGED <<userOps, parentNode, nodeRect, overflow, rafRequests, repeatTimer,
                   hoverTimer, listeners, mutationsSupported, controllerVars, configVars,
                   targets, quedEntries, tickVars, history>>

DebounceInit == Init /\ ~mutationsSupported

DebounceNext ==
    \/ observe(GeoObserver, GeoTarget)
    \/ setTrackHovers(TRUE)
    \/ \E handler \in Debounced : callDebounced(handler)
    \/ timeoutRuns
    \/ timeElapses

DebounceSpec == DebounceInit /\ [][DebounceNext]_vars

----------------------------------------------------------------------------
\* Vocabulary of the properties

\* The step in which _updateObservers updates (and notifies) observer o.
UpdateStep(o) ==
    /\ pc = "tick"
    /\ iterIdx <= Len(observers)
    /\ observers[iterIdx] = o
    /\ iterIdx' = iterIdx + 1

\* After an update step of o: the entries its queue held when the pass was
\* over (they are delivered at once when there are any).
QueuedAfterPass(o) == IF pc' = "callback" THEN call'.arguments[1] ELSE quedEntries'[o]

entriesFor(entries, target) == SelectSeq(entries, LAMBDA e : e.target = target)

\* What an update pass of o computes for target now.
dataNow(o, target) ==
    getIntersectionData(root[o], target, getRootRect(o), getRectangle(target))
bucketNow(o, target) == computeThreshold(o, dataNow(o, target), getRectangle(target))

Within(rect, outer) ==
    /\ rect.left >= outer.left
    /\ rect.right <= outer.right
    /\ rect.top >= outer.top
    /\ rect.bottom <= outer.bottom

\* The target is in the document below o's root and its rectangle lies in the root's.
LiesInsideRoot(o, target) ==
    /\ ~isDetached(root[o], target)
    /\ Within(getRectangle(target), getRectangle(root[o]))

\* The target's rectangle and o's root rectangle (with its margins) are apart.
LiesOutsideRoot(o, target) ==
    LET rect == getRectangle(target)
        rootRect == getRootRect(o)
    IN \/ rect.right < rootRect.left
       \/ rect.left > rootRect.right
       \/ rect.bottom < rootRect.top
       \/ rect.top > rootRect.bottom

\* No ancestor between the target and o's root clips a part of the target away.
NotClipped(o, target) ==
    \A a \in Elements \ {target, root[o]} :
        (contains(a, target) /\ contains(root[o], a) /\ overflow[a] # "visible")
            => Within(getRectangle(target), getRectangle(a))

ZeroMargins(o) == \A i \in 1..4 : rootMargin[o][i].value = Zero

----------------------------------------------------------------------------
\* C1: in every update pass an observation queues an entry iff the threshold
\* index (bucket) computed in the pass differs from the one of its previous
\* pass, and then exactly one, carrying the ratio computed in the pass (0 when
\* there is no intersection); a pass that stays in the bucket queues none.
C1_EntryIffBucketChanges ==
    [][\A o \in Observers : UpdateStep(o) =>
        \A i \in 1..Len(targets[o]) :
            LET observation == targets[o][i]
                target == observation.target
                data == dataNow(o, target)
                crossed == bucketNow(o, target) # observation.prevThreshold
                before == entriesFor(quedEntries[o], target)
                after == entriesFor(QueuedAfterPass(o), target)
            IN /\ Len(after) = Len(before) + (IF crossed THEN 1 ELSE 0)
               /\ crossed =>
                    /\ after[Len(after)].intersectionRatio =
                            (IF data.exists THEN data.ratio ELSE Zero)
                    /\ after[Len(after)].boundingClientRect = getRectangle(target)]_vars

\* A measured target moved across the threshold 0.5 and the callback got one
\* entry with ratio 0.5.
C1_Witness ==
    /\ pc = "callback"
    /\ userOps = <<>>
    /\ history[<<GeoObserver, GeoTarget>>] = "measured"
    /\ thresholds[GeoObserver] = <<Zero, Frac(1, 2), One>>
    /\ Len(call.arguments[1]) = 1
    /\ call.arguments[1][1].intersectionRatio = Frac(1, 2)
    /\ targets[GeoObserver][1].prevThreshold = 2

\* C2, as claimed: the first pass over a target that lies inside the root, with
\* zero margins and thresholds [0], queues exactly one entry, of ratio 1.
C2_AsClaimed ==
    [][\A o \in Observers : UpdateStep(o) =>
        \A i \in 1..Len(targets[o]) :
            LET target == targets[o][i].target
                after == entriesFor(QueuedAfterPass(o), target)
            IN (/\ history[<<o, target>>] = "added"
                /\ thresholds[o] = <<Zero>>
                /\ ZeroMargins(o)
                /\ LiesInsideRoot(o, target))
               => (Len(after) = 1 /\ after[1].intersectionRatio = One)]_vars

\* C2, amended: the same for a target of non-zero area that no ancestor clips.
C2_FirstPassInside ==
    [][\A o \in Observers : UpdateStep(o) =>
        \A i \in 1..Len(targets[o]) :
            LET target == targets[o][i].target
                after == entriesFor(QueuedAfterPass(o), target)
            IN (/\ history[<<o, target>>] = "added"
                /\ thresholds[o] = <<Zero>>
                /\ ZeroMargins(o)
                /\ LiesInsideRoot(o, target)
                /\ getArea(getRectangle(target)) > 0
                /\ NotClipped(o, target))
               => (Len(after) = 1 /\ after[1].intersectionRatio = One)]_vars

\* The first pass over an unclipped target inside the root called back with
\* one entry of ratio 1.
C2_Witness ==
    /\ pc = "callback"
    /\ userOps = <<>>
    /\ history[<<GeoObserver, GeoTarget>>] = "first"
    /\ thresholds[GeoObserver] = <<Zero>>
    /\ ZeroMargins(GeoObserver)
    /\ LiesInsideRoot(GeoObserver, GeoTarget)
    /\ NotClipped(GeoObserver, GeoTarget)
    /\ Len(call.arguments[1]) = 1
    /\ call.arguments[1][1].intersectionRatio = One

\* C3: a pass over a target that lies outside the root queues no entry when
\* the target is newly added or was outside in its previous pass too, and
\* leaves its threshold index 0: no callback as long as it stays outside.
C3_OutsideNotNotified ==
    [][\A o \in Observers : UpdateStep(o) =>
        \A i \in 1..Len(targets[o]) :
            LET observation == targets[o][i]
                target == observation.target
            IN (/\ LiesOutsideRoot(o, target)
                /\ (history[<<o, target>>] = "added" \/ observation.prevThreshold = 0))
               => /\ entriesFor(QueuedAfterPass(o), target) = <<>>
                  /\ targets'[o][i].prevThreshold = 0]_vars

\* A target added outside the root has been measured there, the frame is
\* over and nothing was queued or delivered.
C3_Witness ==
    /\ pc = "idle"
    /\ history[<<GeoObserver, GeoTarget>>] = "measured"
    /\ LiesOutsideRoot(GeoObserver, GeoTarget)
    /\ targets[GeoObserver][1].prevTargetRect = getRectangle(GeoTarget)
    /\ targets[GeoObserver][1].prevThreshold = 0
    /\ targets[GeoObserver][1].prevRatio # Zero
    /\ quedEntries[GeoObserver] = <<>>

----------------------------------------------------------------------------
\* Vocabulary of the properties about registration and delivery

\* The callback of o starts in this step.
CallbackStarts(o) ==
    /\ pc # "callback"
    /\ pc' = "callback"
    /\ call'.this = publicObserver(o)

\* Something the program itself asked for is pending: an animation frame or
\* one of its timers.
WorkPending == rafRequests > 0 \/ repeatTimer \/ hoverTimer

targetsOf(entries) == [i \in 1..Len(entries) |-> entries[i].target]

\* The observations of o whose threshold index a pass made now would change.
crossing(o) ==
    SelectSeq(targets[o], LAMBDA observation :
                  bucketNow(o, observation.target) # observation.prevThreshold)

\* o had targets and has been left without any by unobserve or disconnect.
WasDisconnected(o) ==
    /\ \A t \in Targets : history[<<o, t>>] \in {"never", "removed"}
    /\ \E t \in Targets : history[<<o, t>>] = "removed"

NoDuplicates(entries) ==
    \A i, j \in 1..Len(entries) : entries[i].target = entries[j].target => i = j

\* C4, as claimed: after observe(target) a tick that measures the target runs
\* without a further host event; so while the target is registered and not
\* yet measured and no frame is running, a frame or a timer is pending.
C4_AsClaimed ==
    \A p \in Pairs : (history[p] = "added" /\ pc = "idle") => WorkPending

\* C5: an update pass calls the callback iff the queue is non-empty after it,
\* with the drained batch and the public observer as the two arguments and
\* the public observer as `this`; the callback starts in no other step and
\* its call lasts until it returns.
C5_CallbackIffEntries ==
    [][/\ \A o \in Observers : UpdateStep(o) =>
            LET queued == Len(quedEntries[o]) + Len(crossing(o))
            IN /\ (pc' = "callback") <=> (queued > 0)
               /\ pc' = "callback" =>
                    /\ call'.this = publicObserver(o)
                    /\ Len(call'.arguments) = 2
                    /\ Len(call'.arguments[1]) = queued
                    /\ call'.arguments[2] = publicObserver(o)
                    /\ quedEntries'[o] = <<>>
               /\ pc' # "callback" => (pc' = "tick" /\ call' = NoCall)
       /\ \A o \in Observers : CallbackStarts(o) => UpdateStep(o)
       /\ pc = "callback" => (call' = call \/ (pc' = "tick" /\ call' = NoCall))]_vars

\* The callback of o2 runs with a batch of one entry and the public o2.
C5_Witness ==
    /\ pc = "callback"
    /\ userOps = <<>>
    /\ call.this = publicObserver("o2")
    /\ call.arguments[2] = publicObserver("o2")
    /\ Len(call.arguments[1]) = 1
    /\ quedEntries["o2"] = <<>>
    /\ Len(observers) = 2

\* C6: the batch of a pass lists the targets whose threshold index changed,
\* each once, in the order of the registry, which is the order in which the
\* targets were added: observe appends, unobserve keeps the order of the rest.
C6_BatchInOrderAdded ==
    [][\A o \in Observers :
        /\ UpdateStep(o) =>
            targetsOf(QueuedAfterPass(o)) =
                targetsOf(quedEntries[o]) \o targetsOf(crossing(o))
        /\ LET old == targetsOf(targets[o])
               new == targetsOf(targets'[o])
           IN \/ new = old
              \/ \E t \in Targets \ registered(o) : new = Append(old, t)
              \/ \E t \in registered(o) : new = SelectSeq(old, LAMBDA x : x # t)
              \/ new = <<>>]_vars

\* t2 was added to o1 before t1 and both crossed in one pass: the batch
\* is t2's entry, then t1's.
C6_Witness ==
    /\ pc = "callback"
    /\ userOps = <<>>
    /\ call.this = publicObserver("o1")
    /\ targetsOf(targets["o1"]) = <<"t2", "t1">>
    /\ targetsOf(call.arguments[1]) = <<"t2", "t1">>

\* C7: a removed target is out of the registry until it is added again, and no
\* pass queues or delivers an entry for it; the pass measures every target
\* that is still registered and reports those whose threshold index changed.
C7_NoEntryAfterRemove ==
    [][\A o \in Observers :
        /\ \A t \in Targets : history'[<<o, t>>] = "removed" => ~has(targets'[o], t)
        /\ UpdateStep(o) =>
            /\ \A i \in 1..Len(QueuedAfterPass(o)) :
                    history[<<o, QueuedAfterPass(o)[i].target>>] \notin {"removed", "never"}
            /\ \A i \in 1..Len(targets[o]) :
                    LET target == targets[o][i].target
                    IN /\ targets'[o][i].target = target
                       /\ targets'[o][i].prevTargetRect = getRectangle(target)
                       /\ targets'[o][i].prevThreshold = bucketNow(o, target)
                       /\ bucketNow(o, target) # targets[o][i].prevThreshold
                            => has(QueuedAfterPass(o), target)]_vars

\* t1 was removed from o1; a later pass of o1 delivers an entry for t2 alone.
C7_Witness ==
    /\ pc = "callback"
    /\ userOps = <<>>
    /\ call.this = publicObserver("o1")
    /\ history[<<"o1", "t1">>] = "removed"
    /\ history[<<"o1", "t2">>] = "measured"
    /\ targetsOf(call.arguments[1]) = <<"t2">>

\* C8: an observer left without targets by disconnect (or by unobserve of its
\* last target) has an empty registry and an empty queue, is not in the
\* controller's list, and its callback does not start until a target is added.
C8_SilentAfterDisconnect ==
    [][\A o \in Observers :
        /\ WasDisconnected(o)' =>
            /\ targets'[o] = <<>>
            /\ quedEntries'[o] = <<>>
            /\ ~isConnected(Controller, o)'
        /\ WasDisconnected(o) => ~CallbackStarts(o)]_vars

\* o1 was disconnected while o2 stays connected, and a frame has been through
\* the whole list since.
C8_Witness ==
    /\ WasDisconnected("o1")
    /\ observers = <<"o2">>
    /\ pc = "tick"
    /\ iterIdx > Len(observers)
    /\ history[<<"o2", "t1">>] = "first"

\* C9: observe of a registered target changes nothing: not the registry or
\* the observation's previous state, the queue, the controller's list,
\* cycleStartTime or the pending flag, nor any request to the host; and a
\* registry never holds two observations of one target.
C9_ObserveAgainNoOp ==
    [][/\ \A p \in Pairs :
            (p[2] \in registered(p[1]) /\ observe(p[1], p[2]))
                => UNCHANGED <<targets, quedEntries, controllerVars, hostVars, history>>
       /\ \A o \in Observers : NoDuplicates(targets'[o])]_vars

\* A callback observed a target that its observer had measured before.
C9_Witness ==
    /\ pc = "callback"
    /\ userOps = <<"observe again">>
    /\ \E p \in Pairs : history[p] = "measured" /\ call.this = publicObserver(p[1])

\* C10: an observer is in the controller's list exactly when its registry is
\* not empty, and it is in the list once.
C10_ConnectedIffTargets ==
    /\ \A o \in Observers : (Len(targets[o]) > 0) <=> isConnected(Controller, o)
    /\ \A i, j \in 1..Len(observers) : observers[i] = observers[j] => i = j

\* Inside o1's callback o2 has lost its targets and is out of the list.
C10_Witness ==
    /\ pc = "callback"
    /\ call.this = publicObserver("o1")
    /\ userOps # <<>>
    /\ WasDisconnected("o2")
    /\ observers = <<"o1">>
    /\ Len(targets["o1"]) = 2

----------------------------------------------------------------------------
\* Properties of the controller's listeners and cycles

\* The listeners _initListeners installs when hovers are not tracked.
installedListeners ==
    {"resize", "scroll"} \cup (IF mutationsSupported THEN {} ELSE {"click"})

\* C11: the controller listens exactly when its list of observers is not
\* empty: with the first connected observer the window listeners (and the
\* mutation observer, where there is one) are installed, with the last one
\* gone all of them are removed; and no observer is in the list twice.
C11_ListeningIffConnected ==
    /\ isListening <=> Len(observers) > 0
    /\ listeners \ {"mouseover"} = (IF isListening THEN installedListeners ELSE {})
    /\ ~isListening => listeners = {}
    /\ mutationsObserver <=> (isListening /\ mutationsSupported)
    /\ \A i, j \in 1..Len(observers) : observers[i] = observers[j] => i = j
    /\ \A o \in Observers : isConnected(Controller, o) => Len(targets[o]) > 0

\* The only connected observer lost its last target and nothing listens any more.
C11_Witness ==
    /\ WasDisconnected("o2")
    /\ \A t \in Targets : history[<<"o1", t>>] = "never"
    /\ observers = <<>>
    /\ ~isListening
    /\ listeners = {}
    /\ history[<<"o2", "t1">>] = "removed"
    /\ rafRequests = 0

\* The step in which scheduleUpdate(timestamp) goes on after _updateObservers.
FrameEndStep == pc = "tick" /\ pc' = "idle"

\* A pass of o made now would report a change of a rectangle or of a ratio.
reportsChange(o) ==
    \E i \in 1..Len(targets[o]) :
        LET observation == targets[o][i]
        IN \/ getRectangle(observation.target) # observation.prevTargetRect
           \/ dataNow(o, observation.target).ratio # observation.prevRatio

\* C12: a frame of a running cycle in which some observer reported a change
\* of a rectangle or a ratio ends with cycleStartTime at the current time and
\* with exactly one frame requested; the changes of every pass are counted.
C12_ChangesRestartCycle ==
    [][/\ \A o \in Observers : UpdateStep(o) =>
            hasChanges' = (hasChanges \/ reportsChange(o))
       /\ (FrameEndStep /\ hasChanges /\ cycleStartTime # -1) =>
            /\ cycleStartTime' = clock
            /\ rafRequests' = 1
            /\ isUpdateScheduled']_vars

\* All passes of a frame are over, one of them reported a change, the cycle
\* runs and it started before now.
C12_Witness ==
    /\ pc = "tick"
    /\ iterIdx > Len(observers)
    /\ hasChanges
    /\ cycleStartTime # -1
    /\ cycleStartTime < clock
    /\ \E p \in Pairs : history[p] = "measured"

\* Under CycleSpec: the number of frames since the cycle was (re)started.
framesSinceStart == (clock - cycleStartTime) \div TickInterval

CeilDiv(n, d) == (n + d - 1) \div d

\* The frame that ends here found no change in a running cycle that was not
\* restarted during the frame: an idle tick.
IdleTick == FrameEndStep /\ ~hasChanges /\ cycleStartTime # -1 /\ clock > cycleStartTime

CycleOver ==
    /\ cycleStartTime = -1
    /\ rafRequests = 0
    /\ ~isUpdateScheduled
    /\ ~repeatTimer
    /\ pc = "idle"

\* C14: with mutation notifications, once targets are no longer added or
\* moved and no host event comes, the controller gets to the state in which
\* no cycle runs and no frame is requested, and stays in it.
C14_CycleEnds == <>[]CycleOver

\* A cycle that was started and restarted by changes is over at a time at
\* which nothing is added or moved any more, the target measured.
C14_Witness ==
    /\ CycleOver
    /\ clock > MaxChangeTime + TickInterval
    /\ history[<<GeoObserver, GeoTarget>>] = "measured"
    /\ targets[GeoObserver][1].prevTargetRect # createRectangle(-3, 0, 2, 2)
    /\ idleTimeout > 0

\* What every step keeps when there are no mutation notifications.
fallbackStep ==
    /\ (Len(observers') > 0 /\ pc' = "idle") => (rafRequests' > 0 \/ repeatTimer')
    /\ (Len(observers') > 0 /\ pc' = "idle") => cycleStartTime' # -1
    /\ repeatCycle' <=> isListening'
    /\ "click" \in listeners' <=> isListening'
    /\ (~isListening /\ isListening') => (cycleStartTime' = clock /\ isUpdateScheduled')

\* C15: without mutation notifications and without any host event, frames
\* run again and again while an observer is connected, and a change of a
\* registered target's geometry gets measured; whenever an observer is
\* connected and no frame is running, a frame is requested or the repeat timer
\* is set; the first connection starts a cycle at once, and _repeatCycle is
\* set exactly while the controller listens.
C15_FallbackKeepsTicking ==
    /\ []<>(Len(observers) = 0 \/ pc = "tick")
    /\ \A o \in Observers :
          (Len(targets[o]) > 0 /\ reportsChange(o))
              ~> (Len(targets[o]) = 0 \/ ~reportsChange(o))
    /\ [][fallbackStep]_vars

\* Without mutation notifications a cycle has ended with an observer
\* connected: the repeat timer is set and cycleStartTime is 0.
C15_Witness ==
    /\ ~mutationsSupported
    /\ Len(observers) > 0
    /\ pc = "idle"
    /\ repeatTimer
    /\ rafRequests = 0
    /\ cycleStartTime = 0
    /\ clock > 0
    /\ \E p \in Pairs : history[p] = "measured"

----------------------------------------------------------------------------
\* Properties of the geometry

\* The number of o's thresholds that are <= ratio.
thresholdsUpTo(o, ratio) ==
    Cardinality({ k \in 1..Len(thresholds[o]) : FracLE(thresholds[o][k], ratio) })

\* The threshold index by the rule: by the ratio when the intersection exists
\* and the target's width and height are not both zero, else 1 or 0 as the
\* intersection exists or not.
bucketByRule(o, target) ==
    LET rect == getRectangle(target)
        data == dataNow(o, target)
    IN IF data.exists /\ ~(rect.width = 0 /\ rect.height = 0)
       THEN thresholdsUpTo(o, data.ratio)
       ELSE IF data.exists THEN 1 ELSE 0

\* C16, as claimed: every update takes the threshold index by the rule, and
\* the ratio it computes for a target of zero area is 0; so the first
\* measurement of a zero-size target that intersects gives one entry of ratio 0.
C16_AsClaimed ==
    [][\A o \in Observers : UpdateStep(o) =>
        \A i \in 1..Len(targets[o]) :
            LET target == targets[o][i].target
                after == entriesFor(QueuedAfterPass(o), target)
            IN /\ targets'[o][i].prevThreshold = bucketByRule(o, target)
               /\ getArea(getRectangle(target)) = 0 =>
                    /\ targets'[o][i].prevRatio = Zero
                    /\ \A k \in 1..Len(after) : after[k].intersectionRatio = Zero
               /\ (/\ history[<<o, target>>] = "added"
                   /\ isEmpty(getRectangle(target))
                   /\ dataNow(o, target).exists)
                  => (Len(after) = 1 /\ after[1].intersectionRatio = Zero)]_vars

\* The target is not below o's root, or the root is neither the document
\* element nor below it.
detachedNow(o, target) ==
    \/ ~contains(root[o], target)
    \/ (root[o] # documentElement /\ ~contains(documentElement, root[o]))

\* The update of a detached target: no intersection whatever the rectangles
\* are, threshold index 0, and an entry (of ratio 0, with the all-zero
\* intersection rectangle) exactly when the index was not 0 before.
detachedUpdate(o, i) ==
    LET observation == targets[o][i]
        target == observation.target
        after == entriesFor(QueuedAfterPass(o), target)
    IN detachedNow(o, target) =>
        /\ ~dataNow(o, target).exists
        /\ targets'[o][i].prevThreshold = 0
        /\ Len(after) = (IF observation.prevThreshold # 0 THEN 1 ELSE 0)
        /\ \A k \in 1..Len(after) :
                /\ after[k].intersectionRatio = Zero
                /\ after[k].intersectionRect = emptyRect
                /\ after[k].boundingClientRect = getRectangle(target)

\* The target is attached inside o's root, unclipped, and had no entry above
\* threshold index 0 before.
attachedInside(o, i) ==
    LET target == targets[o][i].target
    IN /\ ~detachedNow(o, target)
       /\ targets[o][i].prevThreshold = 0
       /\ LiesInsideRoot(o, target)
       /\ NotClipped(o, target)

clippers(o, target) ==
    {getRectangle(target), getRootRect(o)}
        \cup { getRectangle(a) : a \in { e \in Elements \ {target, root[o]} :
                                            /\ contains(e, target)
                                            /\ contains(root[o], e)
                                            /\ overflow[e] # "visible" } }

MaxOf(S) == CHOOSE x \in S : \A y \in S : y <= x
MinOf(S) == CHOOSE x \in S : \A y \in S : x <= y

clipped(o, target) ==
    LET left == MaxOf({ r.left : r \in clippers(o, target) })
        top == MaxOf({ r.top : r \in clippers(o, target) })
        right == MinOf({ r.right : r \in clippers(o, target) })
        bottom == MinOf({ r.bottom : r \in clippers(o, target) })
    IN [left |-> left, top |-> top, right |-> right, bottom |-> bottom,
        width |-> right - left, height |-> bottom - top]

\* C18: for an attached target an update computes the intersection rectangle
\* with the greatest left and top and the least right and bottom among the
\* target's rectangle, the root's rectangle with its margins and the
\* rectangles of the ancestors between them whose overflow is not visible;
\* an entry carries this rectangle when the intersection exists, and its
\* intersectionRatio is within [0, 1].
C18_ClippedIntersection ==
    [][\A o \in Observers : UpdateStep(o) =>
        \A i \in 1..Len(targets[o]) :
            LET target == targets[o][i].target
                data == dataNow(o, target)
                after == entriesFor(QueuedAfterPass(o), target)
            IN /\ ~detachedNow(o, target) =>
                    /\ data.rect = clipped(o, target)
                    /\ data.exists <=> (clipped(o, target).width >= 0
                                        /\ clipped(o, target).height >= 0)
               /\ \A k \in 1..Len(after) :
                    /\ FracLE(Zero, after[k].intersectionRatio)
                    /\ FracLE(after[k].intersectionRatio, One)
                    /\ after[k].intersectionRatio.d # 0
                    /\ after[k].intersectionRect =
                            (IF data.exists THEN clipped(o, target) ELSE emptyRect)
                    /\ (data.exists /\ getArea(getRectangle(target)) > 0) =>
                            after[k].intersectionRatio =
                                Frac(getArea(clipped(o, target)),
                                     getArea(getRectangle(target)))]_vars

\* A target inside the root sticks out of its parent, whose overflow is
\* hidden, by half: the entry has the clipped rectangle and ratio 0.5.
C18_Witness ==
    /\ pc = "callback"
    /\ userOps = <<>>
    /\ getRectangle(GeoTarget) = createRectangle(1, 0, 2, 2)
    /\ parentNode[GeoTarget] = "wrap"
    /\ overflow["wrap"] = "hidden"
    /\ ZeroMargins(GeoObserver)
    /\ Len(call.arguments[1]) = 1
    /\ call.arguments[1][1].intersectionRect = createRectangle(1, 0, 1, 2)
    /\ call.arguments[1][1].intersectionRatio = Frac(1, 2)

\* The attached target (with an area of its own) and what clips it share an
\* edge or a corner and no area.
touches(o, target) ==
    /\ ~detachedNow(o, target)
    /\ getArea(getRectangle(target)) > 0
    /\ clipped(o, target).width >= 0
    /\ clipped(o, target).height >= 0
    /\ (clipped(o, target).width = 0 \/ clipped(o, target).height = 0)

\* There is a gap between the attached target and what clips it.
separated(o, target) ==
    /\ ~detachedNow(o, target)
    /\ (clipped(o, target).width < 0 \/ clipped(o, target).height < 0)

\* C19: the intersection exists exactly when the target is attached and the
\* clipped rectangle's width and height are both >= 0. With the thresholds
\* [0], a target that comes to touch gets an entry of ratio 0, a separated
\* one that was not intersecting gets none, and one that was intersecting and
\* is separated now gets one entry of ratio 0.
C19_TouchingIntersects ==
    [][\A o \in Observers : UpdateStep(o) =>
        \A i \in 1..Len(targets[o]) :
            LET observation == targets[o][i]
                target == observation.target
                data == dataNow(o, target)
                after == entriesFor(QueuedAfterPass(o), target)
            IN /\ data.exists <=>
                    (/\ ~detachedNow(o, target)
                     /\ data.rect.width >= 0
                     /\ data.rect.height >= 0)
               /\ touches(o, target) => (data.exists /\ data.ratio = Zero)
               /\ thresholds[o] = <<Zero>> =>
                    /\ (touches(o, target) /\ observation.prevThreshold = 0) =>
                            (Len(after) = 1 /\ after[1].intersectionRatio = Zero)
                    /\ (separated(o, target) /\ observation.prevThreshold = 0) =>
                            after = <<>>
                    /\ (separated(o, target) /\ observation.prevThreshold # 0) =>
                            (Len(after) = 1 /\ after[1].intersectionRatio = Zero)]_vars

\* A target of positive area has come to touch the left edge of what clips
\* it, from outside: the callback gets one entry of ratio 0, whose
\* intersection rectangle has no width.
C19_Witness ==
    /\ pc = "callback"
    /\ userOps = <<>>
    /\ thresholds[GeoObserver] = <<Zero>>
    /\ ZeroMargins(GeoObserver)
    /\ getRectangle(GeoTarget) = createRectangle(-2, 0, 2, 2)
    /\ touches(GeoObserver, GeoTarget)
    /\ Len(call.arguments[1]) = 1
    /\ call.arguments[1][1].intersectionRatio = Zero
    /\ call.arguments[1][1].intersectionRect = createRectangle(0, 0, 0, 2)

\* Ratios an update can compute: 0, 1e-7, 1/4, 1/2, 3/4, 1 and Infinity.
RatioSamples ==
    { Zero, Frac(1, 10000000), Frac(1, 4), Frac(1, 2), Frac(3, 4), One, Frac(1, 0) }

\* C20, as claimed: for every stored threshold list and every ratio,
\* getThresholdGreaterThan gives the number of thresholds <= ratio, which is
\* in [0, thresholds.length], and a greater ratio never gives a smaller index.
C20_AsClaimed ==
    \A o \in Observers : \A ratio1, ratio2 \in RatioSamples :
        /\ getThresholdGreaterThan(o, ratio1) = thresholdsUpTo(o, ratio1)
        /\ getThresholdGreaterThan(o, ratio1) \in 0..Len(thresholds[o])
        /\ FracLE(ratio1, ratio2) =>
                getThresholdGreaterThan(o, ratio1) <= getThresholdGreaterThan(o, ratio2)

----------------------------------------------------------------------------
\* Properties of the construction

\* The step constructs observer o.
ConstructStep(o) == o \notin instances /\ o \in instances'

\* The step is a call of o's constructor that throws.
ConstructFails(o) == o \notin instances /\ o \notin instances' /\ lastError' # lastError

\* The whitespace-separated tokens of a string.
tokensOf(text) == SelectSeq(split(text), LAMBDA token : token # <<>>)

\* The shorthand rule of the margins: a -> a a a a, a b -> a b a b,
\* a b c -> a b c b, and four tokens as they are.
shorthand(tokens) ==
    IF Len(tokens) = 1 THEN <<tokens[1], tokens[1], tokens[1], tokens[1]>>
    ELSE IF Len(tokens) = 2 THEN <<tokens[1], tokens[2], tokens[1], tokens[2]>>
    ELSE IF Len(tokens) = 3 THEN <<tokens[1], tokens[2], tokens[3], tokens[2]>>
    ELSE tokens

ZeroPixels == <<"0", "p", "x">>

\* The tokens of the margin option of o's constructor call.
marginWords(o) ==
    IF options[o].rootMargin.present THEN tokensOf(options[o].rootMargin.text) ELSE <<>>

\* C21, as claimed: constructed with a margin string of one to four valid
\* tokens, the observer stores the four components of the shorthand rule in
\* the order top, right, bottom, left, and its rootMargin is the four tokens
\* joined by single spaces; an omitted or empty margin gives
\* '0px 0px 0px 0px'.
C21_AsClaimed ==
    [][\A o \in Observers : ConstructStep(o) =>
        LET tokens == marginWords(o)
            four == IF Len(tokens) = 0
                    THEN <<ZeroPixels, ZeroPixels, ZeroPixels, ZeroPixels>>
                    ELSE shorthand(tokens)
        IN (Len(tokens) <= 4 /\ \A i \in 1..Len(tokens) : matchesMargin(tokens[i])) =>
                /\ Len(rootMargin'[o]) = 4
                /\ \A i \in 1..4 : rootMargin'[o][i] = parsedMargin(four[i])
                /\ publicRootMargin'[o] = join(four)]_vars

----------------------------------------------------------------------------
\* Properties of the root rectangle

\* The rectangle expanded by the margins: a margin that is a fraction is
\* taken of the height for top and bottom and of the width for right and left.
expandByMargins(rect, margins) ==
    LET resolved(i) ==
            IF margins[i].pixels THEN margins[i].value.n \div margins[i].value.d
            ELSE (margins[i].value.n * (IF i \in {1, 3} THEN rect.height ELSE rect.width))
                    \div margins[i].value.d
        top == rect.top - resolved(1)
        right == rect.right + resolved(2)
        bottom == rect.bottom + resolved(3)
        left == rect.left - resolved(4)
    IN [top |-> top, right |-> right, bottom |-> bottom, left |-> left,
        width |-> right - left, height |-> bottom - top]

\* C22: the root rectangle of a pass is the root's rectangle with top and
\* left moved out by their margins and right and bottom moved out by theirs,
\* width and height computed anew, percents taken of the height (top, bottom)
\* and of the width (right, left); with zero margins it is the root's
\* rectangle; and every entry of the pass carries this one rectangle.
C22_ExpandedRootRect ==
    [][\A o \in Observers : UpdateStep(o) =>
        LET rect == getRectangle(root[o])
            expected == expandByMargins(rect, rootMargin[o])
            batch == QueuedAfterPass(o)
        IN /\ getRootRect(o) = expected
           /\ ZeroMargins(o) => getRootRect(o) = rect
           /\ \A k \in 1..Len(batch) : batch[k].rootBounds = expected]_vars

\* Both targets of an observer whose root is 4 wide and 2 high, with the
\* margins '0px 50% 0px 1px', get their entries in one pass: both carry the
\* root rectangle from -1 to 6 across and 0 to 2 down.
C22_Witness ==
    /\ pc = "callback"
    /\ root[GeoObserver] = "root"
    /\ rootMargin[GeoObserver] = <<px(0), percent(50), px(0), px(1)>>
    /\ Len(call.arguments[1]) = 2
    /\ call.arguments[1][1].target # call.arguments[1][2].target
    /\ \A k \in 1..2 : call.arguments[1][k].rootBounds = createRectangle(-1, 0, 7, 2)

----------------------------------------------------------------------------
\* Properties of the thresholds of the construction

\* list is in ascending order.
ascending(list) == \A k \in 1..(Len(list) - 1) : FracLE(list[k], list[k + 1])

\* The two lists have the same elements, each as many times.
samesElements(a, b) ==
    /\ Len(a) = Len(b)
    /\ \A x \in { a[k] : k \in 1..Len(a) } \cup { b[k] : k \in 1..Len(b) } :
            Cardinality({ k \in 1..Len(a) : a[k] = x })
                = Cardinality({ k \in 1..Len(b) : b[k] = x })

\* The numbers that the elements of the threshold option are coerced to: true
\* is 1, false and null and '' are 0, a string that writes a number is it.
coerced(option) ==
    LET list == IF option.isArray THEN option.items
                ELSE IF option.items[1] = jsUndefined THEN <<>>
                ELSE option.items
    IN [k \in 1..Len(list) |->
            LET value == list[k]
            IN IF value.type \in {"number", "boolean"} THEN value.num
               ELSE IF value.type = "string" /\ value.text # <<>>
               THEN decimalValue(value.text)
               ELSE Zero]

\* C23, as claimed: constructed with a valid threshold option, the observer
\* stores a list that is not empty and is the numbers of the option in
\* ascending order, [0] for an omitted option and for an empty list; and the
\* list of the caller is as it was.
C23_AsClaimed ==
    [][\A o \in Observers : ConstructStep(o) =>
        LET numbers == coerced(options[o].threshold)
        IN /\ Len(thresholds'[o]) > 0
           /\ ascending(thresholds'[o])
           /\ IF Len(numbers) = 0
              THEN thresholds'[o] = <<Zero>>
              ELSE samesElements(thresholds'[o], numbers)
           /\ options'[o] = options[o]]_vars

\* The step is a call of o's constructor.
ConstructCall(o) == o \notin instances /\ construct(o)

\* The elements of the threshold option (none when it is omitted).
elementsOf(option) ==
    IF ~option.isArray /\ option.items[1] = jsUndefined THEN <<>> ELSE option.items

\* The element is not a finite number after the coercion: undefined, an
\* object, NaN, an infinity, or a string that writes no number.
nonFinite(value) ==
    \/ value.type \in {"undefined", "object"}
    \/ value.type = "number" /\ value.num.d = 0
    \/ value.type = "string" /\ value.text # <<>> /\ Number(value) = NaN

\* The element is a finite number outside [0, 1] after the coercion.
outOfRange(value) ==
    /\ ~nonFinite(value)
    /\ LET x == Number(value) IN x.n < 0 \/ x.n > x.d

\* The positions of the elements that the constructor refuses.
offending(option) ==
    { k \in 1..Len(elementsOf(option)) :
        nonFinite(elementsOf(option)[k]) \/ outOfRange(elementsOf(option)[k]) }

\* Nothing of the observers and of the controller changes in the step.
NothingConstructed ==
    /\ UNCHANGED <<instances, root, rootMargin, thresholds, publicRootMargin, targets,
                   quedEntries>>
    /\ UNCHANGED <<controllerVars, rafRequests, repeatTimer, hoverTimer, listeners>>

\* C24: a call of the constructor with a threshold that is not finite or not
\* in [0, 1] after the coercion throws: no observer is constructed and the
\* controller is as it was. The first such element of the list decides the
\* error (the root of the options being a valid one, which is checked before):
\* the TypeError for one that is not finite, the RangeError for one that is
\* out of range.
C24_ThresholdErrors ==
    [][\A o \in Observers : ConstructCall(o) =>
        LET option == options[o].threshold
            refused == offending(option)
            first == CHOOSE k \in refused : \A j \in refused : k <= j
        IN refused # {} =>
            /\ NothingConstructed
            /\ lastError' # NoError
            /\ (~options[o].root.present \/ isElement(options[o].root.node)) =>
                    lastError' = IF nonFinite(elementsOf(option)[first])
                                 THEN "TypeError: The provided double value is non-finite."
                                 ELSE "RangeError: Threshold values must be between 0 and 1."]_vars

\* The constructor was called with the thresholds [2, NaN] and has thrown the
\* RangeError of the first one.
C24_Witness ==
    /\ GeoObserver \notin instances
    /\ options[GeoObserver].threshold = array(<<jsNumber(Frac(2, 1)), jsNumber(NaN)>>)
    /\ lastError = "RangeError: Threshold values must be between 0 and 1."

\* C25, as claimed: a call of the constructor with a margin string of more
\* than four tokens, or with a token that is no number followed by 'px' or
\* '%', throws and constructs no observer; the error is the one of the count
\* for more than four tokens and the one of the format else (the root and the
\* thresholds of the options being valid ones, which are checked before).
C25_AsClaimed ==
    [][\A o \in Observers : ConstructCall(o) =>
        LET tokens == marginWords(o)
            malformed == \E i \in 1..Len(tokens) : ~matchesMargin(tokens[i])
            others == [options[o] EXCEPT !.rootMargin = noMargin]
        IN (Len(tokens) > 4 \/ malformed) =>
            /\ NothingConstructed
            /\ lastError' # NoError
            /\ constructorError(others) = NoError =>
                    lastError' = IF Len(tokens) > 4
                                 THEN "Error: Extra text found at the end of rootMargin."
                                 ELSE "Error: rootMargin must be specified in pixels or percent."]_vars

----------------------------------------------------------------------------
\* Properties of the calls of the public API

MissingArgument == "TypeError: 1 argument required, but only 0 present."
InvalidTarget == "TypeError: parameter 1 is not of type \"Element\"."

\* C26: observe and unobserve called without an argument throw the error of
\* the missing argument, and called with a value that is no element the one
\* of the invalid target; the call leaves the observers' targets and queues,
\* the controller's observers and listeners, the start of the cycle and the
\* scheduled update as they were.
C26_InvalidTargets ==
    [][\A o \in Observers : \A args \in TargetArguments :
        ((Len(args) = 0 \/ args[1] \notin Elements)
            /\ (observeCall(o, args) \/ unobserveCall(o, args))) =>
                /\ lastError' = IF Len(args) = 0 THEN MissingArgument ELSE InvalidTarget
                /\ UNCHANGED <<targets, quedEntries, observers, listeners, isListening,
                               mutationsObserver, cycleStartTime, isUpdateScheduled,
                               rafRequests>>]_vars

\* An observer with a target, connected and in its cycle, has been asked for
\* something that is no element.
C26_Witness ==
    /\ lastError = InvalidTarget
    /\ Len(targets[GeoObserver]) = 1
    /\ observers = <<GeoObserver>>
    /\ cycleStartTime # -1
    /\ isUpdateScheduled

----------------------------------------------------------------------------
\* Properties of the handlers of the controller

\* C27: the handler of the mutations, when none of the records is a change
\* of an attribute, schedules one update and leaves the start of the cycle as
\* it was (one more frame is requested unless an update is scheduled
\* already); when one of the records is a change of an attribute, it starts
\* the cycle: the cycle starts now and an update is scheduled.
C27_MutationHandler ==
    [][\A entries \in MutationRecords : mutation(entries) =>
        /\ isUpdateScheduled'
        /\ rafRequests' = IF isUpdateScheduled THEN rafRequests ELSE rafRequests + 1
        /\ IF \A i \in 1..Len(entries) : entries[i] # "attributes"
           THEN cycleStartTime' = cycleStartTime
           ELSE cycleStartTime' = clock]_vars

\* After the idle time of the observers' cycle the mutations have started
\* another one: every target has been measured before, the cycle starts now
\* and its update is scheduled.
C27_Witness ==
    /\ pc = "idle"
    /\ mutationsObserver
    /\ clock > 0
    /\ cycleStartTime = clock
    /\ isUpdateScheduled
    /\ rafRequests = 1
    /\ \E p \in Pairs : history[p] = "measured"
    /\ \A p \in Pairs : history[p] # "added"

\* The value is a number that is not negative.
validTimeout(value) == value.type = "number" /\ value.num.n >= 0

\* An assignment to idleTimeout, as claimed: a value that is no number or is
\* negative gives a TypeError and leaves the timeout as it was, and a valid
\* one changes the timeout and nothing else.
idleTimeoutStep ==
    \A value \in TimeoutValues : idleTimeoutCall(value) =>
        IF validTimeout(value)
        THEN /\ idleTimeout' = value.num.n
             /\ UNCHANGED <<hostVars, trackHovers, cycleStartTime, isUpdateScheduled,
                            repeatCycle, hoverInitiated, mutationsObserver, isListening,
                            observers, targets, quedEntries, lastError>>
        ELSE /\ idleTimeout' = idleTimeout
             /\ lastError' \in { "TypeError: type of \"idleTimeout\" value must be a number.",
                                 "TypeError: \"idleTimeout\" value must be greater than 0." }

\* C28, as claimed: the idle timeout of the controller is a number >= 0 in
\* every state, and the assignments to it are as above.
C28_AsClaimed == [](idleTimeout >= 0) /\ [][idleTimeoutStep]_vars

----------------------------------------------------------------------------
\* Properties of the hover listener

hoverListenerActive == "mouseover" \in listeners

\* An assignment to trackHovers takes effect in the same step: true attaches
\* the listener when the host listeners are installed, false detaches it.
C29_Toggle ==
    \A value \in BOOLEAN : setTrackHovers(value) =>
        /\ trackHovers' = value
        /\ isListening' = isListening
        /\ value /\ isListening => hoverListenerActive'
        /\ ~value => ~hoverListenerActive'

\* C29: in every state the hover listener is attached iff trackHovers is true
\* and the host listeners are installed; the flag that guards addEventListener
\* is up exactly while the listener is attached, so it is never attached a
\* second time; enableHover attaches at once when an observer is connected
\* and disableHover detaches at once.
C29_HoverListener ==
    /\ [](hoverListenerActive <=> (trackHovers /\ isListening))
    /\ [](hoverInitiated <=> hoverListenerActive)
    /\ [][C29_Toggle]_vars

\* Tracking was switched on by a callback, while an observer is connected, and
\* the listener is attached.
C29_Witness ==
    /\ pc = "callback"
    /\ userOps = <<"trackHovers">>
    /\ Len(observers) > 0
    /\ trackHovers
    /\ hoverListenerActive

----------------------------------------------------------------------------
\* Properties of the debounced handlers

pending(handler) == { t \in pendingTimeouts : t.handler = handler }

\* At most one timeout of a handler is pending, the one the closure holds.
OnePending(handler) ==
    /\ Cardinality(pending(handler)) <= 1
    /\ timeoutID[handler] # NoTimeout <=> pending(handler) # {}
    /\ \A t \in pending(handler) : t.id = timeoutID[handler]

\* While the timeout of the last call is pending the wrapped operation has
\* not run since the burst began and is due DebounceDelay after the last
\* call; afterwards it has run once.
OneInvocation(handler) ==
    lastCall[handler] >= 0 =>
        IF pending(handler) # {}
        THEN /\ invocations[handler] = 0
             /\ \A t \in pending(handler) : t.due = lastCall[handler] + DebounceDelay
        ELSE invocations[handler] = 1

\* The wrapped operation runs DebounceDelay after the last call, never before.
InvokedAfterDelay ==
    \A handler \in Debounced :
        invocations'[handler] = invocations[handler] + 1 =>
            clock = lastCall[handler] + DebounceDelay

\* C30: each debounced handler holds at most one pending delayed invocation,
\* a call made while one is pending replaces it, and a burst of calls less
\* than 200 ms apart gives exactly one invocation of the wrapped operation,
\* 200 ms after the last call of the burst.
C30_Debounce ==
    /\ [](\A handler \in Debounced : OnePending(handler) /\ OneInvocation(handler))
    /\ [][InvokedAfterDelay]_vars

\* A burst of three mouse moves has ended with the one start of a cycle.
C30_Witness ==
    /\ burst["_onMouseOver"] = 3
    /\ invocations["_onMouseOver"] = 1
    /\ pending("_onMouseOver") = {}
    /\ clock = lastCall["_onMouseOver"] + DebounceDelay
    /\ cycleStartTime = clock

----------------------------------------------------------------------------
\* Properties of the ticks of the controller

connectedNow == { observers[i] : i \in 1..Len(observers) }

\* C31, as claimed: whatever the callbacks of a tick do, every observer that
\* is connected when the tick begins and still connected when it ends has been
\* refreshed exactly once in that tick.
C31_AsClaimed ==
    [][FrameEndStep =>
        \A o \in tickObservers \cap connectedNow : refreshed[o] = 1]_vars

\* The step in which the last connected observer is disconnected.
LastDisconnect == Len(observers) > 0 /\ Len(observers') = 0

\* A tick begins.
TickBegins == pc = "idle" /\ pc' = "tick"

\* C32, as claimed: when the last observer is disconnected while a cycle is
\* running the cycle ends in that step, and while no observer is connected no
\* tick runs and no frame is requested.
C32_AsClaimed ==
    [][/\ (LastDisconnect /\ cycleStartTime # -1) => cycleStartTime' = -1
       /\ (Len(observers) = 0 /\ Len(observers') = 0) =>
            (~TickBegins /\ rafRequests' <= rafRequests)]_vars

\* A frame is requested in this step.
FrameRequested == rafRequests' > rafRequests

\* C33: at most one frame is requested and not yet run at any time, however
\* many calls of scheduleUpdate() and startUpdateCycle() are made before it
\* runs: a frame is requested only when _isUpdateScheduled is false (at the
\* end of a tick, after the tick has cleared it), the flag is set with the
\* request, and outside a running tick the flag is true exactly when a frame
\* is requested.
C33_OneFramePending ==
    /\ [](rafRequests <= 1)
    /\ [](pc = "idle" => (isUpdateScheduled <=> rafRequests = 1))
    /\ [][FrameRequested =>
            /\ ~isUpdateScheduled \/ FrameEndStep
            /\ isUpdateScheduled']_vars

\* Both observers have started a cycle, the second one after the clock has
\* moved, and no frame has run since: one frame is requested.
C33_Witness ==
    /\ pc = "idle"
    /\ history[<<"o1", "t1">>] = "added"
    /\ history[<<"o2", "t1">>] = "added"
    /\ cycleStartTime = 1
    /\ rafRequests = 1
    /\ isUpdateScheduled

\* A callback observes a target that was not registered: observe() calls
\* startUpdateCycle() from inside the notification.
ObservedInCallback ==
    /\ pc = "callback"
    /\ \E p \in Pairs : history[p] # "added" /\ history'[p] = "added"

\* C34, as claimed: the frame callback clears _isUpdateScheduled before it
\* refreshes and notifies the observers, so the flag is down while a tick
\* runs and a startUpdateCycle() made by a notification callback requests a
\* new frame.
C34_AsClaimed ==
    /\ [](pc \in {"tick", "callback"} => ~isUpdateScheduled)
    /\ [][ObservedInCallback => (rafRequests' = rafRequests + 1 /\ isUpdateScheduled')]_vars

\* The last step of a tick of a running cycle in which no observer has
\* reported a change.
IdleFrameEnd == FrameEndStep /\ ~hasChanges /\ _wasCycleStarted(Controller)

\* Such a tick goes on: one more frame, the start of the cycle stays.
CycleGoesOn == rafRequests' = 1 /\ isUpdateScheduled' /\ cycleStartTime' = cycleStartTime

\* Such a tick ends the cycle: no frame, and the cycle is not running (in the
\* fallback mode it waits at 0 for the debounced restart).
CycleStops ==
    /\ rafRequests' = 0
    /\ ~isUpdateScheduled'
    /\ IF repeatCycle THEN cycleStartTime' = 0 /\ repeatTimer' ELSE cycleStartTime' = -1

CatchUpEvent ==
    /\ ~_wasCycleStarted(Controller)
    /\ ~isUpdateScheduled
    /\ scroll \/ mutation(<<"childList">>)

\* The last step of a tick during which no cycle was started.
CatchUpFrameEnd == FrameEndStep /\ ~_wasCycleStarted(Controller)

----------------------------------------------------------------------------
\* Properties of the fallback mode

\* The last step of a tick in the fallback mode, the cycle being (or waiting
\* to be) started.
FallbackFrameEnd == FrameEndStep /\ repeatCycle /\ _wasCycleStarted(Controller)

\* The last step of a recheck: cycleStartTime is 0 as _onCycleEnded has left
\* it, long after the idle time has ended.
RecheckFrameEnd == FallbackFrameEnd /\ cycleStartTime = 0 /\ clock > idleTimeout

\* C37, as claimed: in the fallback mode a cycle that ends leaves
\* cycleStartTime at 0 and the debounced scheduleUpdate armed, with no frame
\* requested; the timer, when it fires, requests the one frame of a recheck;
\* while the timer is armed the idle time (counted from 0) has ended, for
\* every idle timeout, so a recheck that detects no change ends at once and
\* arms the timer again, and one that detects a change starts a cycle.
C37_AsClaimed ==
    /\ [](repeatTimer => clock > idleTimeout)
    /\ [][/\ (FallbackFrameEnd /\ ~hasChanges /\ _hasIdleTimeEnded(Controller)) =>
                (cycleStartTime' = 0 /\ repeatTimer' /\ rafRequests' = 0)
          /\ (repeatTimerFires /\ ~isUpdateScheduled) =>
                (rafRequests' = 1 /\ ~repeatTimer' /\ cycleStartTime' = cycleStartTime)
          /\ (RecheckFrameEnd /\ ~hasChanges) =>
                (cycleStartTime' = 0 /\ repeatTimer' /\ rafRequests' = 0)
          /\ (RecheckFrameEnd /\ hasChanges) =>
                (cycleStartTime' = clock /\ rafRequests' = 1)]_vars

----------------------------------------------------------------------------
\* Properties of the cached state of the observations

\* The observation holds what an update computes for its target now.
UpToDate(o, observation) ==
    LET targetRect == getRectangle(observation.target)
        data == dataNow(o, observation.target)
    IN /\ observation.prevTargetRect = targetRect
       /\ observation.prevThreshold = computeThreshold(o, data, targetRect)
       /\ observation.prevRatio = data.ratio

\* C38: an update pass leaves every observation of the observer with the
\* target's rectangle, the bucket and the ratio as computed (the ratio as
\* computed, also when the intersection does not exist), whether or not it
\* queued an entry; it reports a change exactly when a rectangle or a ratio
\* differed from the cached one; and a second pass over the geometry it
\* leaves would queue no entry and report no change.
C38_CachedState ==
    [][\A o \in Observers : UpdateStep(o) =>
        /\ Len(targets'[o]) = Len(targets[o])
        /\ \A i \in 1..Len(targets'[o]) :
                /\ targets'[o][i].target = targets[o][i].target
                /\ UpToDate(o, targets'[o][i])
                /\ LET second == updateIntersection(o, targets'[o][i], root[o],
                                                    getRootRect(o))
                   IN /\ second.entries = <<>>
                      /\ ~second.changes.ratioChanged
                      /\ ~second.changes.targetRectChanged
        /\ hasChanges' = (hasChanges \/ reportsChange(o))]_vars

\* A pass has found the target's rectangle changed and its bucket not: no
\* entry was queued, and the observation holds the new rectangle.
C38_Witness ==
    /\ pc = "tick"
    /\ iterIdx = 2
    /\ hasChanges
    /\ quedEntries[GeoObserver] = <<>>
    /\ Len(targets[GeoObserver]) = 1
    /\ history[<<GeoObserver, GeoTarget>>] = "measured"
    /\ UpToDate(GeoObserver, targets[GeoObserver][1])
    /\ targets[GeoObserver][1].prevRatio # Zero

----------------------------------------------------------------------------
\* Properties of the queues of the observers

\* No observer holds a queued entry.
QueuesEmpty == \A o \in Observers : quedEntries[o] = <<>>

----------------------------------------------------------------------------
\* Properties of a running cycle

\* What goes on with a running cycle: a requested frame, or, where mutations
\* are not notified, the debounced repeat handler's timer.
ContinuationPending ==
    IF mutationsSupported THEN rafRequests > 0
    ELSE rafRequests > 0 \/ repeatTimer

\* C40: while no frame runs and a cycle is running (cycleStartTime is not -1)
\* a frame is requested, or, in the fallback mode, a frame is requested or
\* the timer of the repeat handler is set.
C40_RunningCycleContinues ==
    (pc = "idle" /\ cycleStartTime # -1) => ContinuationPending

\* In the fallback mode a cycle has ended with observers connected: it is
\* kept running from time 0 by the repeat handler's timer alone.
C40_Witness ==
    /\ pc = "idle"
    /\ ~mutationsSupported
    /\ Len(observers) > 0
    /\ cycleStartTime = 0
    /\ rafRequests = 0
    /\ repeatTimer
    /\ \E p \in Pairs : history[p] = "measured"

====
